---- MODULE Spec2Model ----
(***************************************************************************)
(* State-machine models of the Blender scripts of this repository.  Each   *)
(* script (or function of a script) has its own group of variables, its    *)
(* own actions and its own specification; a specification leaves the       *)
(* variables of the other groups at their idle values.                     *)
(***************************************************************************)
EXTENDS Integers, Sequences, FiniteSets, TLC

VARIABLES
    \* ---- SierpinskiPyramid.py ----
    sp_pc,           \* "idle" | "running" | "returned" | "materials" | "assigned"
    sp_base_center,  \* argument base_center
    sp_size,         \* argument size
    sp_iterations,   \* argument iterations
    sp_hollow,       \* argument hollow of the call in progress
    sp_stack,        \* activation records of sierpinski_recursive
    sp_total_count,  \* the nonlocal total_count
    sp_objects,      \* the list create_sierpinski_pyramid returned
    sp_materials,    \* the list create_gradient_materials returned
    sp_results,      \* hollow -> the list returned (and coloured) for that mode, or <<>>
    \* ---- KleinBottle.py: create_klein_bottle_mesh ----
    kb_pc,           \* "verts" | "faces" | "to_mesh" | "done" | "raised"
    kb_u_steps,      \* argument u_steps
    kb_v_steps,      \* argument v_steps
    kb_i,            \* loop index i
    kb_j,            \* loop index j
    kb_verts,        \* bm.verts: the grid places <<i, j>> whose vertex exists
    kb_faces,        \* bm.faces: each face the tuple of its four vertices
    kb_attempted,    \* the <<i, j>> for which bm.faces.new was called
    kb_skipped,      \* the <<i, j>> whose bm.faces.new raised
    kb_pos,          \* the positions given to bm.verts.new: <<i, j, pos>>
    kb_mesh,         \* what bm.to_mesh wrote: [verts, faces], or "none"
    \* ---- one run of any script, as its sequence of host calls ----
    sc_script,       \* the script that runs
    sc_env,          \* the host scene the run starts from
    sc_pc,           \* index of the next step of the script's path
    sc_log,          \* the host calls made so far: [kind, line, idx]
    \* ---- Mandelbulb.py: create_mandelbulb, called twice ----
    mb_pc,           \* "ico" | "subsurf" | "deform" | "smooth" | "done"
    mb_args,         \* the arguments of the two calls: [resolution, power, scale]
    mb_call,         \* the call in progress: 1 or 2
    mb_obj,          \* the active object: [name, verts, edges, faces, modifiers]
    mb_objs,         \* the objects the finished calls returned
    \* ---- animations/proceduralwalk.py: create_walk_cycle ----
    wk_pc,           \* the statement create_walk_cycle is at
    wk_armature,     \* get_armature() finds an armature
    wk_bones,        \* armature.pose.bones
    wk_anim,         \* the armature has animation_data
    wk_frame,        \* the loop variable frame
    wk_keys,         \* keyframes: <<target, data_path, frame>>
    wk_ik_ran,       \* setup_ik_constraints has run
    wk_constraints,  \* the bones that carry an IK constraint
    wk_objects,      \* the objects of the scene
    wk_rest_z,       \* location.z of the hip target before the script, in thousandths
    wk_loc_z,        \* location.z of the hip target
    wk_heights,      \* the heights keyed: <<target, frame, location.z>>
    \* ---- spacelight.py: recursive_tower ----
    tw_pc,           \* "idle" | "running" | "done"
    tw_stack,        \* the call stack: [depth, lo, hi, num_children, i, objects]
    tw_levels,       \* the depths at which a segment has been created
    tw_result,       \* the length of the list the outermost call returned
    \* ---- spacelight.py: create_fractal_spikes ----
    sk_pc,           \* "idle" | "running" | "done"
    sk_max_depth,    \* the argument max_depth
    sk_stack,        \* the call stack: [depth, radius, num_spikes, i, spikes]
    sk_levels,       \* the number of spikes created at each depth
    sk_result,       \* the length of the list the outermost call returned
    \* ---- spacelight.py: two runs of the script and the random module ----
    sd_phase,        \* "seed" | "build" | "done"
    sd_run,          \* the run in progress: 1 or 2
    sd_entropy,      \* the generator's state when each run starts
    sd_rng,          \* the state of the random module's generator
    sd_seeded,       \* random.seed(SEED) has been executed in this run
    sd_pc,           \* the position in the build sequence
    sd_stack,        \* the call stack of recursive_tower: [depth, scale, num_children, i]
    sd_log,          \* the draws and segments of this run, in order
    sd_logs,         \* the logs of the finished runs
    \* ---- Mandelbulb.py: mandelbulb_distance ----
    md_pc,           \* "loop" | "final" | "returned"
    md_power,        \* the argument power
    md_iterations,   \* the argument iterations
    md_i,            \* the loop variable i
    md_z,            \* the length of the vector z
    md_r,            \* the variable r
    md_dr,           \* the variable dr
    md_divs,         \* the divisions made so far: <<divisor name, r, dr>>
    md_result,       \* "none" | "zero" | "estimate"
    \* ---- animations/bounce.py and jump.py, run twice ----
    an_script,       \* "bounce" | "jump"
    an_run,          \* the run in progress: 1 or 2
    an_pc,           \* the position in the script
    an_active,       \* bpy.context.active_object is an object
    an_before,       \* char.location before the first run
    an_loc,          \* char.location, in tenths
    an_anim,         \* char.animation_data exists
    an_keys,         \* the location keyframes of char: <<index, frame, value>>
    an_frame,        \* the current frame of the scene
    an_start,        \* start_x, start_y, start_z of this run
    an_starts,       \* the start positions the finished runs have read
    \* Mandelbulb.py run again in the same scene
    rn_pc,           \* position in the script
    rn_objs,         \* bpy.data.objects: records id, type, data, run that made it (0: none)
    rn_sel,          \* ids of the selected objects
    rn_mode,         \* bpy.context.mode
    rn_todo,         \* ids the loop over bpy.data.objects has yet to visit
    rn_i,            \* index into fractal_configs, from 1
    rn_next,         \* id of the next object the host creates
    rn_camera,       \* bpy.context.scene.camera, 0 for none
    rn_run,          \* runs finished
    rn_init,         \* the scene before the first run
    rn_snap          \* objects of each type at the end of each run

sierpVars == <<sp_pc, sp_base_center, sp_size, sp_iterations, sp_hollow, sp_stack,
               sp_total_count, sp_objects, sp_materials, sp_results>>

kleinVars == <<kb_pc, kb_u_steps, kb_v_steps, kb_i, kb_j, kb_verts, kb_faces,
               kb_attempted, kb_skipped, kb_pos, kb_mesh>>

scriptVars == <<sc_script, sc_env, sc_pc, sc_log>>

mandelVars == <<mb_pc, mb_args, mb_call, mb_obj, mb_objs>>

walkVars == <<wk_pc, wk_armature, wk_bones, wk_anim, wk_frame, wk_keys, wk_ik_ran,
              wk_constraints, wk_objects, wk_rest_z, wk_loc_z, wk_heights>>

towerVars == <<tw_pc, tw_stack, tw_levels, tw_result>>

spikeVars == <<sk_pc, sk_max_depth, sk_stack, sk_levels, sk_result>>

seedVars == <<sd_phase, sd_run, sd_entropy, sd_rng, sd_seeded, sd_pc, sd_stack, sd_log,
              sd_logs>>

distVars == <<md_pc, md_power, md_iterations, md_i, md_z, md_r, md_dr, md_divs, md_result>>

animVars == <<an_script, an_run, an_pc, an_active, an_before, an_loc, an_anim, an_keys,
              an_frame, an_start, an_starts>>

rerunVars == <<rn_pc, rn_objs, rn_sel, rn_mode, rn_todo, rn_i, rn_next, rn_camera, rn_run,
               rn_init, rn_snap>>

vars == <<sierpVars, kleinVars, scriptVars, mandelVars, walkVars, towerVars, spikeVars,
          seedVars, distVars, animVars, rerunVars>>

(***************************************************************************)
(* Bounds                                                                  *)
(***************************************************************************)
MaxIterations == 3

MaxSteps == 4

\* create_fractal_spikes is run for max_depth in 0..MaxSpikeDepth
MaxSpikeDepth == 7

LoopTurns == 2

\* mandelbulb_distance is run for iterations in 0..MaxDistIterations
MaxDistIterations == 3

RECURSIVE Pow(_, _)
Pow(b, n) == IF n = 0 THEN 1 ELSE b * Pow(b, n - 1)

Range(f) == { f[x] : x \in DOMAIN f }

Min(a, b) == IF a <= b THEN a ELSE b

Max(a, b) == IF a >= b THEN a ELSE b

(***************************************************************************)
(* SierpinskiPyramid.py                                                    *)
(*                                                                         *)
(* Numbers.  A scale is held as an integer count of ScaleUnit =            *)
(* 1/2^MaxIterations, so that scale / 2.0 (exact in binary floating point) *)
(* is an exact integer division down to depth MaxIterations.  A Vector is  *)
(* held as <<a, b, c>> standing for                                        *)
(*    x = a * (sqrt(3)/3)/2 * ScaleUnit,                                   *)
(*    y = b * (sqrt(3)/3)*(sqrt(3)/2) * ScaleUnit,                         *)
(*    z = c * sqrt(2/3) * ScaleUnit,                                       *)
(* the lattice in which tetrahedron_vertices places its four vertices      *)
(* (cos 0 = 1, cos 120 = cos 240 = -1/2, sin 120 = -sin 240 = sqrt(3)/2).  *)
(***************************************************************************)
ScaleDen == Pow(2, MaxIterations)

SIZE == 4

GradientCount == 20

VecAdd(p, q) == <<p[1] + q[1], p[2] + q[2], p[3] + q[3]>>

\* tetrahedron_vertices(center, scale): [v0, v1, v2, v3]
tetrahedron_vertices(center, scale) ==
    << VecAdd(center, <<0, 0, scale>>),
       VecAdd(center, <<2 * scale, 0, 0>>),
       VecAdd(center, <<0 - scale, scale, 0>>),
       VecAdd(center, <<0 - scale, 0 - scale, 0>>) >>

\* create_single_tetrahedron(center, scale, name): the object linked to the scene.
\* The mesh holds the four vertices in world coordinates; the object's own
\* location is never assigned and stays the origin bpy.data.objects.new gives it.
create_single_tetrahedron(center, scale, name) ==
    [ name     |-> name,
      center   |-> center,
      scale    |-> scale,
      verts    |-> tetrahedron_vertices(center, scale),
      location |-> <<0, 0, 0>>,
      material |-> -1 ]

\* Mutant of HalfScale: the child keeps its parent's scale.
HalfScale_NotHalved(scale) == scale

\* new_scale = scale / 2.0
HalfScale(scale) == scale \div 2

\* Mutant of BaseCaseGuard: the recursion stops one level early.
BaseCaseGuard_OneEarly(depth, max_depth) == depth >= max_depth - 1

\* "if depth >= max_depth": the base case
BaseCaseGuard(depth, max_depth) == depth >= max_depth

\* "if hollow and depth < max_depth - 1": the hollow branch
HollowGuard(hollow, depth, max_depth) == hollow /\ depth < max_depth - 1

\* An activation record of sierpinski_recursive on entry.
Frame(center, scale, depth) ==
    [ center |-> center, scale |-> scale, depth |-> depth, branch |-> "entry",
      verts |-> <<>>, new_scale |-> 0, i |-> 0, objects |-> <<>> ]

\* The set-up both branches share before their loop:
\* verts = tetrahedron_vertices(center, scale); new_scale = scale / 2.0; objects = []
EnterBranch(frame, branch) ==
    [ frame EXCEPT !.branch = branch,
                   !.verts = tetrahedron_vertices(frame.center, frame.scale),
                   !.new_scale = HalfScale(frame.scale),
                   !.objects = <<>>,
                   !.i = 1 ]

\* "return ret" from the top activation: the caller's objects.extend(ret) and the
\* next turn of its for loop, or, from the outermost call, all_objects = ret.
ReturnFrom(stack, ret) ==
    LET n == Len(stack) IN
    IF n = 1 THEN <<>>
    ELSE [ SubSeq(stack, 1, n - 1) EXCEPT
             ![n - 1].objects = @ \o ret,
             ![n - 1].i = @ + 1 ]

SpTop == sp_stack[Len(sp_stack)]

SpReturn(ret) ==
    /\ sp_stack' = ReturnFrom(sp_stack, ret)
    /\ IF Len(sp_stack) = 1
          THEN sp_objects' = ret /\ sp_pc' = "returned"
          ELSE UNCHANGED <<sp_objects, sp_pc>>

\* create_sierpinski_pyramid(base_center, size, iterations, hollow) is called:
\* all_objects = [], total_count = 0, sierpinski_recursive(base_center, size, 0, iterations)
SpCall(h) ==
    /\ sp_pc \in {"idle", "assigned"}
    /\ sp_results[h] = <<>>
    /\ sp_hollow' = h
    /\ sp_stack' = << Frame(sp_base_center, sp_size, 0) >>
    /\ sp_total_count' = 0
    /\ sp_objects' = <<>>
    /\ sp_materials' = 0
    /\ sp_pc' = "running"
    /\ UNCHANGED <<sp_base_center, sp_size, sp_iterations, sp_results>>

\* Base case: create the tetrahedron Tetra_L{depth}_N{total_count}, return [obj]
SpBaseCase ==
    /\ sp_pc = "running"
    /\ SpTop.branch = "entry"
    /\ BaseCaseGuard(SpTop.depth, sp_iterations)
    /\ LET obj == create_single_tetrahedron(SpTop.center, SpTop.scale,
                                            <<SpTop.depth, sp_total_count>>)
       IN  /\ sp_total_count' = sp_total_count + 1
           /\ SpReturn(<<obj>>)
    /\ UNCHANGED <<sp_base_center, sp_size, sp_iterations, sp_hollow, sp_materials,
                   sp_results>>

\* Hollow mode, intermediate level: verts, new_scale, objects = []
SpHollowBranch ==
    /\ sp_pc = "running"
    /\ SpTop.branch = "entry"
    /\ ~BaseCaseGuard(SpTop.depth, sp_iterations)
    /\ HollowGuard(sp_hollow, SpTop.depth, sp_iterations)
    /\ sp_stack' = [ sp_stack EXCEPT ![Len(sp_stack)] = EnterBranch(@, "hollow") ]
    /\ UNCHANGED <<sp_pc, sp_base_center, sp_size, sp_iterations, sp_hollow,
                   sp_total_count, sp_objects, sp_materials, sp_results>>

\* Recursive case: verts, new_scale, objects = []
SpRecursiveBranch ==
    /\ sp_pc = "running"
    /\ SpTop.branch = "entry"
    /\ ~BaseCaseGuard(SpTop.depth, sp_iterations)
    /\ ~HollowGuard(sp_hollow, SpTop.depth, sp_iterations)
    /\ sp_stack' = [ sp_stack EXCEPT ![Len(sp_stack)] = EnterBranch(@, "recursive") ]
    /\ UNCHANGED <<sp_pc, sp_base_center, sp_size, sp_iterations, sp_hollow,
                   sp_total_count, sp_objects, sp_materials, sp_results>>

\* "for vert in verts: objects.extend(sierpinski_recursive(vert, new_scale, depth + 1, max_depth))"
\* one turn of the loop of either branch: the recursive call is entered
SpLoopCall ==
    /\ sp_pc = "running"
    /\ SpTop.branch \in {"hollow", "recursive"}
    /\ SpTop.i <= Len(SpTop.verts)
    /\ sp_stack' = Append(sp_stack,
                          Frame(SpTop.verts[SpTop.i], SpTop.new_scale, SpTop.depth + 1))
    /\ UNCHANGED <<sp_pc, sp_base_center, sp_size, sp_iterations, sp_hollow,
                   sp_total_count, sp_objects, sp_materials, sp_results>>

\* the loop of either branch is over: return objects
SpLoopReturn ==
    /\ sp_pc = "running"
    /\ SpTop.branch \in {"hollow", "recursive"}
    /\ SpTop.i > Len(SpTop.verts)
    /\ SpReturn(SpTop.objects)
    /\ UNCHANGED <<sp_base_center, sp_size, sp_iterations, sp_hollow, sp_total_count,
                   sp_materials, sp_results>>

\* create_gradient_materials(count, ...): range(count) materials Sierpinski_Mat_{i}
create_gradient_materials(count) == count

SpCreateMaterials ==
    /\ sp_pc = "returned"
    /\ sp_materials' = create_gradient_materials(GradientCount)
    /\ sp_pc' = "materials"
    /\ UNCHANGED <<sp_base_center, sp_size, sp_iterations, sp_hollow, sp_stack,
                   sp_total_count, sp_objects, sp_results>>

\* key=lambda o: o.location.z
SortKey(o) == o.location[3]

\* The place element k of objs takes in sorted(objs, key=SortKey): Python's sort
\* is stable, so k follows the elements with a smaller key and the earlier
\* elements with an equal key
SortedPlace(objs, k) ==
    1 + Cardinality({ j \in DOMAIN objs :
                        \/ SortKey(objs[j]) < SortKey(objs[k])
                        \/ SortKey(objs[j]) = SortKey(objs[k]) /\ j < k })

\* sorted(objects, key=lambda o: o.location.z)
SortedByKey(objs) ==
    LET place == [ k \in DOMAIN objs |-> SortedPlace(objs, k) ]
    IN  [ p \in DOMAIN objs |-> objs[CHOOSE k \in DOMAIN objs : place[k] = p] ]

\* mat_index = min(int((i / len(sorted_objs)) * len(materials)), len(materials) - 1)
MatIndex(i, n, m) == Min((i * m) \div n, m - 1)

\* assign_materials_by_depth(objects, materials): the objects in sorted order,
\* each with its material slot 0 set
assign_materials_by_depth(objects, materials) ==
    LET sorted_objs == SortedByKey(objects) IN
    [ k \in 1..Len(sorted_objs) |->
        [ sorted_objs[k] EXCEPT !.material = MatIndex(k - 1, Len(sorted_objs), materials) ] ]

SpAssignMaterials ==
    /\ sp_pc = "materials"
    /\ sp_results' = [ sp_results EXCEPT ![sp_hollow] =
                         assign_materials_by_depth(sp_objects, sp_materials) ]
    /\ sp_pc' = "assigned"
    /\ UNCHANGED <<sp_base_center, sp_size, sp_iterations, sp_hollow, sp_stack,
                   sp_total_count, sp_objects, sp_materials>>

SierpIdle ==
    /\ sp_pc = "off"
    /\ sp_base_center = <<0, 0, 0>>
    /\ sp_size = 0
    /\ sp_iterations = 0
    /\ sp_hollow = FALSE
    /\ sp_stack = <<>>
    /\ sp_total_count = 0
    /\ sp_objects = <<>>
    /\ sp_materials = 0
    /\ sp_results = [ h \in BOOLEAN |-> <<>> ]

SierpInit ==
    /\ sp_pc = "idle"
    /\ sp_base_center \in { <<0, 0, 0>>, <<ScaleDen, 0 - ScaleDen, 2 * ScaleDen>> }
    /\ sp_size \in { SIZE * ScaleDen, ScaleDen }
    /\ sp_iterations \in 0..MaxIterations
    /\ sp_hollow = FALSE
    /\ sp_stack = <<>>
    /\ sp_total_count = 0
    /\ sp_objects = <<>>
    /\ sp_materials = 0
    /\ sp_results = [ h \in BOOLEAN |-> <<>> ]

SierpNext ==
    \/ \E h \in BOOLEAN : SpCall(h)
    \/ SpBaseCase
    \/ SpHollowBranch
    \/ SpRecursiveBranch
    \/ SpLoopCall
    \/ SpLoopReturn
    \/ SpCreateMaterials
    \/ SpAssignMaterials

(***************************************************************************)
(* Properties of SierpinskiPyramid.py                                      *)
(***************************************************************************)
SpReturned == sp_pc \in {"returned", "materials", "assigned"}

\* every list of objects the run holds: the returned one, the coloured ones and
\* the partial lists of the activations in progress
SpAllLists ==
    {sp_objects} \cup { sp_results[h] : h \in BOOLEAN }
                 \cup { sp_stack[k].objects : k \in DOMAIN sp_stack }

\* the geometry of a list of tetrahedra
TetraSet(objs) == { [ center |-> o.center, scale |-> o.scale, verts |-> o.verts ] :
                    o \in Range(objs) }

Claim_C2_HollowIsProperSubset ==
    ( /\ sp_iterations >= 2
      /\ sp_results[TRUE] # <<>>
      /\ sp_results[FALSE] # <<>> )
    => /\ TetraSet(sp_results[TRUE]) \subseteq TetraSet(sp_results[FALSE])
       /\ TetraSet(sp_results[TRUE]) # TetraSet(sp_results[FALSE])

\* z of a vertex, in units of sqrt(2/3) * ScaleUnit
VertZ(v) == v[3]

\* A lies geometrically lower than B: all of A's vertices are below B's lowest
LiesLower(A, B) == \A va \in Range(A.verts) : \A vb \in Range(B.verts) : VertZ(va) < VertZ(vb)

\* C8 (as claimed): assign_materials_by_depth gives the gradient in order of the
\* tetrahedra's Z position: whenever A lies geometrically lower than B, A's
\* material index is <= B's.
Claim_C8_MaterialsFollowZ ==
    \A h \in BOOLEAN :
        \A A \in Range(sp_results[h]) : \A B \in Range(sp_results[h]) :
            LiesLower(A, B) => A.material <= B.material

\* C9: every leaf tetrahedron has scale exactly size / 2^iterations, and every
\* recursive call at depth d+1 is centred at one of the four vertices of its
\* parent call at depth d (parent centre + (0,0,h), or + r at 0, 120, 240
\* degrees in the base plane) and has exactly half the parent's scale.
Thm_C9_ScaleHalvesAtVertices ==
    /\ \A objs \in SpAllLists : \A o \in Range(objs) :
          o.scale * Pow(2, sp_iterations) = sp_size
    /\ \A k \in DOMAIN sp_stack : k > 1 =>
          LET parent == sp_stack[k - 1]
              child  == sp_stack[k]
              s      == parent.scale
          IN  /\ child.depth = parent.depth + 1
              /\ 2 * child.scale = s
              /\ \E off \in { <<0, 0, s>>, <<2 * s, 0, 0>>, <<0 - s, s, 0>>,
                               <<0 - s, 0 - s, 0>> } :
                     child.center = VecAdd(parent.center, off)
    /\ (sp_stack # <<>>) => sp_stack[1].depth = 0 /\ sp_stack[1].scale = sp_size
                              /\ sp_stack[1].center = sp_base_center

Wit_C9_LeafUnderDepthTwoCall ==
    /\ sp_pc = "running"
    /\ Len(sp_stack) >= 3
    /\ sp_stack[2].objects # <<>>
    /\ sp_stack[Len(sp_stack)].depth = sp_iterations

(***************************************************************************)
(* KleinBottle.py: create_klein_bottle_mesh(u_steps, v_steps)              *)
(***************************************************************************)
\* the quad of grid place (i, j): [v1, v2, v3, v4]
\* Angles are counted in TurnUnits to the full turn (3 degrees each) and
\* cosines in thousandths: CosTable[k + 1] is math.cos of 3k degrees.
TurnUnits == 120

TrigUnit == 1000

CosTable ==
    << 1000, 999, 995, 988, 978, 966, 951, 934,
       914, 891, 866, 839, 809, 777, 743, 707,
       669, 629, 588, 545, 500, 454, 407, 358,
       309, 259, 208, 156, 105, 52, 0 >>

Cos(k) ==
    LET a == k % TurnUnits
    IN  IF a <= 30 THEN CosTable[a + 1]
        ELSE IF a <= 60 THEN -CosTable[61 - a]
        ELSE IF a <= 90 THEN -CosTable[a - 59]
        ELSE CosTable[121 - a]

Sin(k) == Cos(k + 90)

\* a product of two numbers in thousandths, rounded to the nearest thousandth
MulFix(a, b) == (a * b + TrigUnit \div 2) \div TrigUnit

\* u = (i / u_steps) * 2 * math.pi, in TurnUnits
GridAngle(i, steps) == (i * TurnUnits) \div steps

\* the parametrization of lines 40-49 at the angles u and v
KleinXYZ(u, v) ==
    LET r == 4 * (TrigUnit - Cos(u) \div 2)
        x0 == MulFix(6 * Cos(u), TrigUnit + Sin(u))
    IN  IF 2 * u < TurnUnits
           THEN << x0 + MulFix(r, Cos(v + TurnUnits \div 2)),
                   16 * Sin(u),
                   MulFix(r, Sin(v + TurnUnits \div 2)) >>
           ELSE << x0 + MulFix(MulFix(r, Cos(u)), Cos(v)),
                   16 * Sin(u),
                   MulFix(MulFix(r, Sin(u)), Sin(v)) >>

\* scale = 0.08; pos = Vector((x * scale, z * scale, -y * scale * 0.9));
\* pos.z += 1.2
Upright(p) ==
    << (8 * p[1]) \div 100, (8 * p[3]) \div 100, (-72 * p[2]) \div 1000 + 1200 >>

\* the position of grid vertex (i, j)
KleinPos(i, j, u_steps, v_steps) ==
    Upright(KleinXYZ(GridAngle(i, u_steps), GridAngle(j, v_steps)))

Quad(i, j, u_steps, v_steps) ==
    << <<i, j>>,
       <<(i + 1) % u_steps, j>>,
       <<(i + 1) % u_steps, (j + 1) % v_steps>>,
       <<i, (j + 1) % v_steps>> >>

\* bm.faces.new(verts) raises ValueError when a vertex is used more than once or
\* when a face on the same vertices already exists
FaceNewRaises(faces, quad) ==
    \/ Cardinality(Range(quad)) < Len(quad)
    \/ \E f \in faces : Range(f) = Range(quad)

\* Mutant of FaceErrorOutcome: the handler re-raises.
FaceErrorOutcome_Raise == "raise"

\* "except: pass": what follows a raising bm.faces.new
FaceErrorOutcome == "pass"

\* the next turn of "for i in range(u_steps): for j in range(v_steps)", or the
\* statement after the loops
KbAdvance(after) ==
    IF kb_j + 1 < kb_v_steps
       THEN kb_j' = kb_j + 1 /\ UNCHANGED <<kb_i, kb_pc>>
    ELSE IF kb_i + 1 < kb_u_steps
       THEN kb_i' = kb_i + 1 /\ kb_j' = 0 /\ UNCHANGED kb_pc
    ELSE kb_i' = 0 /\ kb_j' = 0 /\ kb_pc' = after

\* vert = bm.verts.new(pos); row.append(vert)
KbNewVert ==
    /\ kb_pc = "verts"
    /\ kb_verts' = kb_verts \cup { <<kb_i, kb_j>> }
    /\ kb_pos' = kb_pos \cup { <<kb_i, kb_j, KleinPos(kb_i, kb_j, kb_u_steps, kb_v_steps)>> }
    /\ KbAdvance("faces")
    /\ UNCHANGED <<kb_u_steps, kb_v_steps, kb_faces, kb_attempted, kb_skipped, kb_mesh>>

\* try: bm.faces.new([v1, v2, v3, v4]) succeeds
KbFaceCreated ==
    /\ kb_pc = "faces"
    /\ LET quad == Quad(kb_i, kb_j, kb_u_steps, kb_v_steps) IN
        /\ ~FaceNewRaises(kb_faces, quad)
        /\ kb_faces' = kb_faces \cup { quad }
    /\ kb_attempted' = kb_attempted \cup { <<kb_i, kb_j>> }
    /\ KbAdvance("to_mesh")
    /\ UNCHANGED <<kb_u_steps, kb_v_steps, kb_verts, kb_skipped, kb_pos, kb_mesh>>

\* try: bm.faces.new([v1, v2, v3, v4]) raises; except: pass
KbFaceSkipped ==
    /\ kb_pc = "faces"
    /\ FaceNewRaises(kb_faces, Quad(kb_i, kb_j, kb_u_steps, kb_v_steps))
    /\ kb_attempted' = kb_attempted \cup { <<kb_i, kb_j>> }
    /\ kb_skipped' = kb_skipped \cup { <<kb_i, kb_j>> }
    /\ IF FaceErrorOutcome = "pass"
          THEN KbAdvance("to_mesh")
          ELSE kb_pc' = "raised" /\ UNCHANGED <<kb_i, kb_j>>
    /\ UNCHANGED <<kb_u_steps, kb_v_steps, kb_verts, kb_faces, kb_pos, kb_mesh>>

\* bm.to_mesh(mesh); bm.free(); smooth shading; the two modifiers; return obj
KbToMesh ==
    /\ kb_pc = "to_mesh"
    /\ kb_mesh' = [ verts |-> Cardinality(kb_verts), faces |-> Cardinality(kb_faces) ]
    /\ kb_pc' = "done"
    /\ UNCHANGED <<kb_u_steps, kb_v_steps, kb_i, kb_j, kb_verts, kb_faces,
                   kb_attempted, kb_skipped, kb_pos>>

KleinIdle ==
    /\ kb_pc = "off"
    /\ kb_u_steps = 0
    /\ kb_v_steps = 0
    /\ kb_i = 0
    /\ kb_j = 0
    /\ kb_verts = {}
    /\ kb_faces = {}
    /\ kb_attempted = {}
    /\ kb_skipped = {}
    /\ kb_pos = {}
    /\ kb_mesh = "none"

KleinInit ==
    /\ kb_pc = "verts"
    /\ kb_u_steps \in 1..MaxSteps
    /\ kb_v_steps \in 1..MaxSteps
    /\ kb_i = 0
    /\ kb_j = 0
    /\ kb_verts = {}
    /\ kb_faces = {}
    /\ kb_attempted = {}
    /\ kb_skipped = {}
    /\ kb_pos = {}
    /\ kb_mesh = "none"

KleinNext ==
    \/ KbNewVert
    \/ KbFaceCreated
    \/ KbFaceSkipped
    \/ KbToMesh

(***************************************************************************)
(* Properties of create_klein_bottle_mesh                                  *)
(***************************************************************************)
KbGrid == (0..(kb_u_steps - 1)) \X (0..(kb_v_steps - 1))

\* C3: a failing bm.faces.new (a repeated vertex, or a face on the same vertices
\* already there) is silently skipped: no error reaches the caller, the face
\* loop goes on to every remaining (i, j), and the mesh is written with all
\* u_steps x v_steps vertices and with the faces that did not fail.
Thm_C3_FailedFacesSkipped ==
    /\ kb_pc # "raised"
    /\ kb_skipped \subseteq kb_attempted
    /\ kb_pc \in {"to_mesh", "done"} => kb_attempted = KbGrid
    /\ kb_pc = "done" =>
          /\ kb_mesh.verts = kb_u_steps * kb_v_steps
          /\ kb_mesh.faces = Cardinality(KbGrid \ kb_skipped)

Wit_C3_DoneWithSkippedFaces ==
    /\ kb_pc = "done"
    /\ kb_skipped # {}
    /\ kb_faces # {}
    /\ \E a \in kb_skipped : \E b \in kb_attempted \ kb_skipped :
          a[1] < b[1] \/ (a[1] = b[1] /\ a[2] < b[2])

\* the figure-eight immersion of the Klein bottle with radius a:
\*   x = (a + cos(u/2) sin v - sin(u/2) sin 2v) cos u
\*   y = (a + cos(u/2) sin v - sin(u/2) sin 2v) sin u
\*   z = sin(u/2) sin v + cos(u/2) sin 2v
\* half is u/2 in TurnUnits
FigureEightXYZ(a, half, v) ==
    LET w == a * TrigUnit + MulFix(Cos(half), Sin(v)) - MulFix(Sin(half), Sin(2 * v))
    IN  << MulFix(w, Cos(2 * half)),
           MulFix(w, Sin(2 * half)),
           MulFix(Sin(half), Sin(v)) + MulFix(Cos(half), Sin(2 * v)) >>

Near(p, q) == \A k \in 1..3 : p[k] - q[k] \in (0 - 5)..5

\* C14 (as claimed): grid vertex (i, j) is placed at the point of the
\* figure-eight immersion at u = 2*pi*i/u_steps, v = 2*pi*j/v_steps, scaled by
\* 0.08, rotated upright and lifted by 1.2, for every i and j: some radius of
\* the immersion gives every vertex of the mesh its position.
Claim_C14_VerticesOnFigureEight ==
    kb_pc = "done" =>
        \E a \in 3..8 :
            \A vert \in kb_pos :
                Near(vert[3],
                     Upright(FigureEightXYZ(a, (vert[1] * (TurnUnits \div 2)) \div kb_u_steps,
                                            GridAngle(vert[2], kb_v_steps))))

(***************************************************************************)
(* The scripts as sequences of host calls.                                 *)
(*                                                                         *)
(* Every script is straight-line code whose branches depend only on the    *)
(* scene it starts from (sc_env).  A step is one host call, in source      *)
(* order along the path taken: kind "clear" is an object deletion, a       *)
(* material removal or an animation_data_clear; "create" adds an object to *)
(* the scene; "key" inserts a keyframe; "other" is any other call.  runs   *)
(* is the guard the source puts on the call (an if, or a loop over a       *)
(* possibly empty collection).  A loop whose number of turns is data       *)
(* (frames, planets, tetrahedra) is unrolled LoopTurns times.              *)
(***************************************************************************)
Scripts == { "KleinBottle", "Mandelbulb", "SierpinskiPyramid", "spacelight",
             "basicanimations", "bounce", "jump", "proceduralwalk",
             "solarsystemorbitsim" }

AnimationTypes == { "rotate", "bounce", "scale_pulse", "wave", "orbit" }

\* objects: the scene holds objects; meshes: some are meshes; materials:
\* bpy.data.materials is not empty; active: there is an active object;
\* anim: the animated object has animation_data; armature: the scene holds an
\* armature; bones: the armature has the bones the walk cycle names;
\* anim_type: basicanimations' ANIMATION_TYPE
Envs == [ objects : BOOLEAN, meshes : BOOLEAN, materials : BOOLEAN, active : BOOLEAN,
          anim : BOOLEAN, armature : BOOLEAN, bones : BOOLEAN,
          anim_type : AnimationTypes ]

StIf(op, kind, line, runs) == [ op |-> op, kind |-> kind, line |-> line, runs |-> runs ]

St(op, kind, line) == StIf(op, kind, line, TRUE)

\* keyframe_insert calls at the given source lines
Keys(lines) == [ k \in DOMAIN lines |-> St("keyframe_insert", "key", lines[k]) ]

\* object-creating operator calls at the given source lines
Creates(op, lines) == [ k \in DOMAIN lines |-> St(op, "create", lines[k]) ]

RECURSIVE Repeat(_, _)
Repeat(seq, n) == IF n = 0 THEN <<>> ELSE seq \o Repeat(seq, n - 1)

NumFractalConfigs == 3

ProgKleinBottle(env) ==
    << St("object.select_all", "other", 10),
       StIf("obj.select_set", "other", 12, env.objects),
       St("object.delete", "clear", 13),
       StIf("materials.remove", "clear", 17, env.materials),
       St("objects.new", "create", 26),
       St("materials.new", "other", 101),
       St("nodes.clear", "other", 106),
       St("mesh.primitive_plane_add", "create", 129),
       St("materials.new", "other", 132) >>
    \o Creates("object.light_add", <<141, 147, 152>>)
    \o << St("object.camera_add", "create", 158) >>

ProgMandelbulb(env) ==
    << St("object.select_all", "other", 10),
       StIf("obj.select_set", "other", 13, env.meshes),
       StIf("object.delete", "clear", 15, env.meshes) >>
    \o Repeat(<< St("mesh.primitive_ico_sphere_add", "create", 84),
                 St("object.modifier_apply", "other", 93),
                 St("materials.new", "other", 132),
                 St("nodes.clear", "other", 136) >>, NumFractalConfigs)
    \o << St("object.camera_add", "create", 196) >>
    \o Creates("object.light_add", <<203, 210, 217>>)

ProgSierpinskiPyramid(env) ==
    << St("object.select_all", "other", 10),
       StIf("obj.select_set", "other", 13, env.meshes),
       StIf("object.delete", "clear", 15, env.meshes),
       StIf("materials.remove", "clear", 19, env.materials) >>
    \o Repeat(<< St("objects.new", "create", 53) >>, LoopTurns)
    \o Repeat(<< St("materials.new", "other", 151) >>, LoopTurns)
    \o << St("object.join", "other", 193),
          St("object.shade_smooth", "other", 198),
          St("object.camera_add", "create", 219) >>
    \o Creates("object.light_add", <<234, 242, 250>>)

ProgSpacelight(env) ==
    << St("object.select_all", "other", 8),
       St("object.delete", "clear", 9),
       St("mesh.primitive_cylinder_add", "create", 73) >>
    \o Repeat(<< St("mesh.primitive_cylinder_add", "create", 24) >>, LoopTurns)
    \o Repeat(<< St("mesh.primitive_cylinder_add", "create", 129) >>, LoopTurns)
    \o << St("mesh.primitive_uv_sphere_add", "create", 161),
          St("mesh.bisect", "other", 173) >>
    \o Repeat(<< St("mesh.primitive_cone_add", "create", 208) >>, LoopTurns)
    \o Repeat(<< St("mesh.primitive_torus_add", "create", 245) >>, LoopTurns)
    \o Repeat(<< St("curve.primitive_bezier_curve_add", "create", 271),
                 St("objects.new", "create", 315) >>, LoopTurns)
    \o Repeat(<< St("mesh.primitive_cone_add", "create", 342) >>, LoopTurns)
    \o << St("mesh.primitive_circle_add", "create", 375),
          St("materials.new", "other", 412),
          St("nodes.clear", "other", 416),
          St("materials.new", "other", 463),
          St("nodes.clear", "other", 467),
          St("materials.new", "other", 483),
          St("nodes.clear", "other", 487),
          St("materials.new", "other", 515),
          St("nodes.clear", "other", 519),
          St("object.light_add", "create", 639) >>
    \o Repeat(<< St("object.light_add", "create", 648) >>, LoopTurns)
    \o << St("object.camera_add", "create", 669) >>

ProgSolarSystem(env) ==
    << St("object.select_all", "other", 19),
       St("object.delete", "clear", 20),
       St("mesh.primitive_uv_sphere_add", "create", 40),
       St("materials.new", "other", 24) >>
    \o Repeat(<< St("objects.new", "create", 95),
                 St("materials.new", "other", 100),
                 St("mesh.primitive_uv_sphere_add", "create", 53),
                 St("materials.new", "other", 24) >>
              \o Repeat(Keys(<<72, 76>>), LoopTurns), LoopTurns)
    \o << St("object.camera_add", "create", 108),
          St("object.light_add", "create", 116) >>

\* the keyframe_insert calls of the animate_* function ANIMATION_TYPE selects
AnimateKeys(anim_type) ==
    CASE anim_type = "rotate"      -> Keys(<<16, 18>>)
      [] anim_type = "bounce"      -> Keys(<<29, 31, 33>>)
      [] anim_type = "scale_pulse" -> Keys(<<38, 40, 42>>)
      [] anim_type = "wave"        -> Repeat(Keys(<<52>>), LoopTurns)
      [] anim_type = "orbit"       -> Repeat(Keys(<<68, 69>>), LoopTurns)

ProgBasicAnimations(env) ==
    Repeat(<< StIf("animation_data_clear", "clear", 11, env.objects) >>, LoopTurns)
    \o IF ~env.meshes
          THEN << St("print", "other", 83) >>
          ELSE Repeat(AnimateKeys(env.anim_type), LoopTurns)

ProgBounce(env) ==
    << St("scene settings", "other", 9) >>
    \o IF ~env.active
          THEN << St("print", "other", 17) >>
          ELSE << StIf("animation_data_clear", "clear", 21, env.anim),
                  St("scene.frame_set", "other", 24) >>
               \o Keys(<<30, 34, 38, 42, 46, 49, 52, 56, 59, 64, 67, 72, 75, 78, 81, 84>>)

ProgJump(env) ==
    << St("scene settings", "other", 9) >>
    \o IF ~env.active
          THEN << St("print", "other", 17) >>
          ELSE << StIf("animation_data_clear", "clear", 21, env.anim),
                  St("scene.frame_set", "other", 31) >>
               \o Keys(<<35, 36, 37, 43, 44, 45, 52, 53, 54, 61, 62, 63, 68, 69, 74, 75,
                         83, 84, 90, 91, 98, 99, 108, 109, 110, 116, 117, 123, 124,
                         130, 131, 132, 137, 138, 144, 145, 146>>)

\* create_walk_cycle on an armature: clear, then the five animate_* calls
ProgWalkArmature(env) ==
    << StIf("animation_data_clear", "clear", 203, env.anim),
       St("object.mode_set", "other", 53) >>
    \o (IF env.bones THEN Repeat(Keys(<<80, 88>>), LoopTurns) ELSE <<>>)
    \o << St("object.mode_set", "other", 53) >>
    \o (IF env.bones THEN Repeat(Keys(<<80, 88>>), LoopTurns) ELSE <<>>)
    \o << St("object.mode_set", "other", 92) >>
    \o Repeat(Keys(IF env.bones THEN <<121>> ELSE <<117>>), LoopTurns)
    \o << St("object.mode_set", "other", 125) >>
    \o (IF env.bones THEN Repeat(Keys(<<143>>), LoopTurns) ELSE <<>>)
    \o << St("object.mode_set", "other", 147) >>
    \o (IF env.bones THEN Repeat(Keys(<<166>>), 2 * LoopTurns) ELSE <<>>)
    \o << St("object.mode_set", "other", 223) >>

\* Mutant of ProgWalkDemo: the scene is cleared after the cubes are added.
ProgWalkDemo_DeleteAfterCubes(env) ==
    Creates("mesh.primitive_cube_add", <<236, 242, 246>>)
    \o << St("object.select_all", "other", 232),
          St("object.delete", "clear", 233) >>
    \o Repeat(Keys(<<260, 266, 270>>), LoopTurns)

\* create_demo_walk: clear the scene, three cubes, the frame loop
ProgWalkDemo(env) ==
    << St("object.select_all", "other", 232),
       St("object.delete", "clear", 233) >>
    \o Creates("mesh.primitive_cube_add", <<236, 242, 246>>)
    \o Repeat(Keys(<<260, 266, 270>>), LoopTurns)

ProgProceduralWalk(env) ==
    << St("get_armature", "other", 187) >>
    \o IF env.armature THEN ProgWalkArmature(env) ELSE ProgWalkDemo(env)

Program(script, env) ==
    CASE script = "KleinBottle"         -> ProgKleinBottle(env)
      [] script = "Mandelbulb"          -> ProgMandelbulb(env)
      [] script = "SierpinskiPyramid"   -> ProgSierpinskiPyramid(env)
      [] script = "spacelight"          -> ProgSpacelight(env)
      [] script = "solarsystemorbitsim" -> ProgSolarSystem(env)
      [] script = "basicanimations"     -> ProgBasicAnimations(env)
      [] script = "bounce"              -> ProgBounce(env)
      [] script = "jump"                -> ProgJump(env)
      [] script = "proceduralwalk"      -> ProgProceduralWalk(env)

ScProgram == Program(sc_script, sc_env)

\* the next host call of the path is made
ScExecute ==
    /\ sc_pc <= Len(ScProgram)
    /\ ScProgram[sc_pc].runs
    /\ sc_log' = Append(sc_log, [ kind |-> ScProgram[sc_pc].kind,
                                  line |-> ScProgram[sc_pc].line,
                                  idx  |-> sc_pc ])
    /\ sc_pc' = sc_pc + 1
    /\ UNCHANGED <<sc_script, sc_env>>

\* the guard of the next host call is false: the call is not made
ScSkip ==
    /\ sc_pc <= Len(ScProgram)
    /\ ~ScProgram[sc_pc].runs
    /\ sc_pc' = sc_pc + 1
    /\ UNCHANGED <<sc_script, sc_env, sc_log>>

ScriptIdle ==
    /\ sc_script = "none"
    /\ sc_env = "none"
    /\ sc_pc = 0
    /\ sc_log = <<>>

ScriptInit ==
    /\ sc_script \in Scripts
    /\ sc_env \in Envs
    /\ sc_env.meshes => sc_env.objects
    /\ sc_env.bones => sc_env.armature
    /\ sc_env.armature => sc_env.objects
    /\ sc_env.active => sc_env.objects
    /\ (sc_script # "basicanimations") => sc_env.anim_type = "rotate"
    /\ sc_pc = 1
    /\ sc_log = <<>>

ScriptNext ==
    \/ ScExecute
    \/ ScSkip

(***************************************************************************)
(* Properties of the scripts' order of host calls                          *)
(***************************************************************************)
CreateOrKey == { "create", "key" }

\* C4: in every script, on every path, the clearing step (object deletion,
\* material removal, animation_data_clear) is behind the run before its first
\* object is created or its first keyframe inserted: every clearing statement of
\* the path comes before that call, and no clearing call follows a creation or
\* keyframe call of the same run.
Thm_C4_ClearBeforeCreate ==
    /\ \A a \in DOMAIN sc_log : sc_log[a].kind \in CreateOrKey =>
          \A k \in DOMAIN ScProgram : ScProgram[k].kind = "clear" => k < sc_log[a].idx
    /\ \A a \in DOMAIN sc_log : \A b \in DOMAIN sc_log :
          (a < b /\ sc_log[a].kind \in CreateOrKey) => sc_log[b].kind # "clear"

Wit_C4_WalkClearedThenKeyed ==
    /\ sc_script = "proceduralwalk"
    /\ sc_env.armature /\ sc_env.anim
    /\ sc_pc = Len(ScProgram) + 1
    /\ \E a \in DOMAIN sc_log : \E b \in DOMAIN sc_log :
          a < b /\ sc_log[a].kind = "clear" /\ sc_log[b].kind = "key"

(***************************************************************************)
(* Mandelbulb.py: create_mandelbulb(resolution, power, scale)              *)
(*                                                                         *)
(* A mesh is held by its numbers of vertices, edges and faces.  The        *)
(* function is applied twice, to two argument lists that differ at most in *)
(* resolution.                                                             *)
(***************************************************************************)
IcoSubdivisions == 5

SubsurfLevels == 3

Resolutions == { 32, 64, 96, 128 }

Powers == { 6, 8, 9 }

\* scale, in tenths: 1.5 (the module's configurations) and 2.0 (the default)
MbScales == { 15, 20 }

\* bpy.ops.mesh.primitive_ico_sphere_add(subdivisions=n): an icosahedron whose
\* triangles are split in four n - 1 times
IcoSphere(n) ==
    [ verts |-> 10 * Pow(4, n - 1) + 2,
      edges |-> 30 * Pow(4, n - 1),
      faces |-> 20 * Pow(4, n - 1),
      sides |-> 3 ]

\* one level of a SUBSURF modifier (Catmull-Clark): a vertex per vertex, edge
\* and face; every face of k sides becomes k quads
SubdivideOnce(m) ==
    [ verts |-> m.verts + m.edges + m.faces,
      edges |-> 2 * m.edges + m.sides * m.faces,
      faces |-> m.sides * m.faces,
      sides |-> 4 ]

RECURSIVE Subdivide(_, _)
Subdivide(m, levels) == IF levels = 0 THEN m ELSE Subdivide(SubdivideOnce(m), levels - 1)

MbArgs == mb_args[mb_call]

\* bpy.ops.mesh.primitive_ico_sphere_add(subdivisions=5, radius=scale);
\* obj.name = f"Mandelbulb_P{power}"
MbIcoSphereAdd ==
    /\ mb_pc = "ico"
    /\ mb_obj' = [ name |-> <<"Mandelbulb_P", MbArgs.power>>,
                   mesh |-> IcoSphere(IcoSubdivisions),
                   radius |-> MbArgs.scale,
                   modifiers |-> <<>>,
                   deformed |-> FALSE ]
    /\ mb_pc' = "subsurf"
    /\ UNCHANGED <<mb_args, mb_call, mb_objs>>

\* subsurf = obj.modifiers.new("Subdivision", 'SUBSURF'); levels = 3;
\* bpy.ops.object.modifier_apply(modifier="Subdivision")
MbModifierApply ==
    /\ mb_pc = "subsurf"
    /\ mb_obj' = [ mb_obj EXCEPT !.mesh = Subdivide(@, SubsurfLevels) ]
    /\ mb_pc' = "deform"
    /\ UNCHANGED <<mb_args, mb_call, mb_objs>>

\* "for vert in bm.verts: ... vert.co += vert.normal * displacement": every
\* vertex is moved along its normal; none is added or removed
MbDeform ==
    /\ mb_pc = "deform"
    /\ mb_obj' = [ mb_obj EXCEPT !.deformed = TRUE ]
    /\ mb_pc' = "smooth"
    /\ UNCHANGED <<mb_args, mb_call, mb_objs>>

\* shade_smooth; subsurf2 = obj.modifiers.new("Smooth", 'SUBSURF') (not applied);
\* return obj
MbSmoothReturn ==
    /\ mb_pc = "smooth"
    /\ mb_objs' = Append(mb_objs, [ mb_obj EXCEPT !.modifiers = Append(@, "Smooth") ])
    /\ IF mb_call < Len(mb_args)
          THEN mb_call' = mb_call + 1 /\ mb_pc' = "ico"
          ELSE mb_pc' = "done" /\ UNCHANGED mb_call
    /\ UNCHANGED <<mb_args, mb_obj>>

MandelIdle ==
    /\ mb_pc = "off"
    /\ mb_args = <<>>
    /\ mb_call = 0
    /\ mb_obj = "none"
    /\ mb_objs = <<>>

MandelInit ==
    /\ mb_pc = "ico"
    /\ \E r1 \in Resolutions, r2 \in Resolutions, p \in Powers, sc \in MbScales :
          mb_args = << [ resolution |-> r1, power |-> p, scale |-> sc ],
                       [ resolution |-> r2, power |-> p, scale |-> sc ] >>
    /\ mb_call = 1
    /\ mb_obj = "none"
    /\ mb_objs = <<>>

(***************************************************************************)
(* Properties of create_mandelbulb                                         *)
(***************************************************************************)
\* C5 (as claimed): the mesh depends on resolution: for the same power and
\* scale, a higher resolution yields a mesh with more vertices.
Claim_C5_HigherResolutionMoreVertices ==
    ( /\ mb_pc = "done"
      /\ mb_args[1].resolution < mb_args[2].resolution )
    => mb_objs[1].mesh.verts < mb_objs[2].mesh.verts

(***************************************************************************)
(* animations/proceduralwalk.py: create_walk_cycle                         *)
(***************************************************************************)
WALK_CYCLE_FRAMES == 24

\* STEP_HEIGHT = 0.3, the amplitude 0.05 of the bob, and the rest heights of
\* the demo's cubes, in thousandths
STEP_HEIGHT == 300

BobHeight == 50

DemoFootRest == 150

DemoBodyRest == 1500

Abs(x) == IF x < 0 THEN 0 - x ELSE x

\* t = (frame - 1) / frames; angle = t * 2 * math.pi, in TurnUnits
WalkAngle(frame) == ((frame - 1) * TurnUnits) \div WALK_CYCLE_FRAMES

\* phase_offset = 0 if is_left else math.pi;
\* height = abs(math.sin(angle)) * STEP_HEIGHT
FootHeight(frame, is_left) ==
    MulFix(Abs(Sin(WalkAngle(frame) + (IF is_left THEN 0 ELSE TurnUnits \div 2))),
           STEP_HEIGHT)

\* bob = abs(math.sin(angle * 2)) * 0.05
HipBob(frame) == MulFix(Abs(Sin(2 * WalkAngle(frame))), BobHeight)

BoneNames == { "foot.L", "foot.R", "hips", "spine", "upper_arm.L", "upper_arm.R" }

\* leg_bones of setup_ik_constraints
LegBones == { "leg.L", "shin.L", "foot.L", "leg.R", "shin.R", "foot.R" }

\* bone_sets of create_walk_cycle
FootBone(pc) == IF pc = "foot_L" THEN "foot.L" ELSE "foot.R"

ArmBone(pc) == IF pc = "arm_left" THEN "upper_arm.L" ELSE "upper_arm.R"

\* the statement after each animate_* call of create_walk_cycle
AfterPc(pc) ==
    CASE pc = "foot_L"    -> "foot_R"
      [] pc = "foot_R"    -> "hip"
      [] pc = "hip"       -> "spine"
      [] pc = "spine"     -> "arm_left"
      [] pc = "arm_left"  -> "arm_right"
      [] pc = "arm_right" -> "cyclic"

\* setup_ik_constraints(armature): makes the armature active, enters pose mode,
\* builds the leg_bones table and returns True; it adds no constraint.  No
\* statement of the script calls it.
setup_ik_constraints ==
    /\ wk_ik_ran' = TRUE
    /\ UNCHANGED <<wk_pc, wk_armature, wk_bones, wk_anim, wk_frame, wk_keys,
                   wk_constraints, wk_objects>>
    /\ UNCHANGED <<wk_rest_z, wk_loc_z, wk_heights>>

\* create_walk_cycle with an armature: frame range; "if armature.animation_data:
\* armature.animation_data_clear()"
WkStartArmature ==
    /\ wk_pc = "start"
    /\ wk_armature
    /\ wk_keys' = IF wk_anim THEN {} ELSE wk_keys
    /\ wk_anim' = FALSE
    /\ wk_pc' = "foot_L"
    /\ wk_frame' = 1
    /\ UNCHANGED <<wk_armature, wk_bones, wk_ik_ran, wk_constraints, wk_objects>>
    /\ UNCHANGED <<wk_rest_z, wk_loc_z, wk_heights>>

\* create_walk_cycle without an armature: create_demo_walk() is called
WkStartDemo ==
    /\ wk_pc = "start"
    /\ ~wk_armature
    /\ wk_pc' = "demo_clear"
    /\ UNCHANGED <<wk_armature, wk_bones, wk_anim, wk_frame, wk_keys, wk_ik_ran,
                   wk_constraints, wk_objects>>
    /\ UNCHANGED <<wk_rest_z, wk_loc_z, wk_heights>>

\* animate_foot: "if foot_bone_name not in armature.pose.bones: print(...); return"
WkFootMissing ==
    /\ wk_pc \in {"foot_L", "foot_R"}
    /\ FootBone(wk_pc) \notin wk_bones
    /\ wk_pc' = AfterPc(wk_pc)
    /\ wk_frame' = 1
    /\ UNCHANGED <<wk_armature, wk_bones, wk_anim, wk_keys, wk_ik_ran, wk_constraints,
                   wk_objects>>
    /\ UNCHANGED <<wk_rest_z, wk_loc_z, wk_heights>>

\* animate_foot: one turn of "for frame in range(1, frames + 1)": location and
\* rotation_euler are keyed at frame
WkFootFrame ==
    /\ wk_pc \in {"foot_L", "foot_R"}
    /\ FootBone(wk_pc) \in wk_bones
    /\ wk_frame <= WALK_CYCLE_FRAMES
    /\ wk_keys' = wk_keys \cup { <<FootBone(wk_pc), "location", wk_frame>>,
                                  <<FootBone(wk_pc), "rotation_euler", wk_frame>> }
    /\ wk_anim' = TRUE
    /\ wk_frame' = wk_frame + 1
    /\ UNCHANGED <<wk_pc, wk_armature, wk_bones, wk_ik_ran, wk_constraints, wk_objects>>
    /\ wk_heights' = wk_heights \cup
          { <<FootBone(wk_pc), wk_frame, FootHeight(wk_frame, wk_pc = "foot_L")>> }
    /\ UNCHANGED <<wk_rest_z, wk_loc_z>>

\* animate_hip: the target is the hip bone, or the armature object when the bone
\* is missing; one turn of the frame loop keys location
HipTarget == IF "hips" \in wk_bones THEN "hips" ELSE "armature"

WkHipFrame ==
    /\ wk_pc = "hip"
    /\ wk_frame <= WALK_CYCLE_FRAMES
    /\ wk_keys' = wk_keys \cup { <<HipTarget, "location", wk_frame>> }
    /\ wk_anim' = TRUE
    /\ wk_frame' = wk_frame + 1
    /\ UNCHANGED <<wk_pc, wk_armature, wk_bones, wk_ik_ran, wk_constraints, wk_objects>>
    /\ wk_loc_z' = IF HipTarget = "armature" THEN wk_loc_z + HipBob(wk_frame)
                                               ELSE HipBob(wk_frame)
    /\ wk_heights' = wk_heights \cup { <<HipTarget, wk_frame, wk_loc_z'>> }
    /\ UNCHANGED wk_rest_z

\* animate_spine: "if spine_bone_name not in armature.pose.bones: return"
WkSpineMissing ==
    /\ wk_pc = "spine"
    /\ "spine" \notin wk_bones
    /\ wk_pc' = AfterPc(wk_pc)
    /\ wk_frame' = 1
    /\ UNCHANGED <<wk_armature, wk_bones, wk_anim, wk_keys, wk_ik_ran, wk_constraints,
                   wk_objects>>
    /\ UNCHANGED <<wk_rest_z, wk_loc_z, wk_heights>>

\* animate_spine: one turn of the frame loop keys rotation_euler
WkSpineFrame ==
    /\ wk_pc = "spine"
    /\ "spine" \in wk_bones
    /\ wk_frame <= WALK_CYCLE_FRAMES
    /\ wk_keys' = wk_keys \cup { <<"spine", "rotation_euler", wk_frame>> }
    /\ wk_anim' = TRUE
    /\ wk_frame' = wk_frame + 1
    /\ UNCHANGED <<wk_pc, wk_armature, wk_bones, wk_ik_ran, wk_constraints, wk_objects>>
    /\ UNCHANGED <<wk_rest_z, wk_loc_z, wk_heights>>

\* animate_arms: "if bone_name not in armature.pose.bones: continue"
WkArmMissing ==
    /\ wk_pc \in {"arm_left", "arm_right"}
    /\ ArmBone(wk_pc) \notin wk_bones
    /\ wk_pc' = AfterPc(wk_pc)
    /\ wk_frame' = 1
    /\ UNCHANGED <<wk_armature, wk_bones, wk_anim, wk_keys, wk_ik_ran, wk_constraints,
                   wk_objects>>
    /\ UNCHANGED <<wk_rest_z, wk_loc_z, wk_heights>>

\* animate_arms: one turn of the frame loop keys rotation_euler
WkArmFrame ==
    /\ wk_pc \in {"arm_left", "arm_right"}
    /\ ArmBone(wk_pc) \in wk_bones
    /\ wk_frame <= WALK_CYCLE_FRAMES
    /\ wk_keys' = wk_keys \cup { <<ArmBone(wk_pc), "rotation_euler", wk_frame>> }
    /\ wk_anim' = TRUE
    /\ wk_frame' = wk_frame + 1
    /\ UNCHANGED <<wk_pc, wk_armature, wk_bones, wk_ik_ran, wk_constraints, wk_objects>>
    /\ UNCHANGED <<wk_rest_z, wk_loc_z, wk_heights>>

\* the frame loop of an animate_* function is over: the function returns
WkLoopDone ==
    /\ wk_pc \in {"foot_L", "foot_R", "hip", "spine", "arm_left", "arm_right"}
    /\ wk_frame > WALK_CYCLE_FRAMES
    /\ wk_pc' = AfterPc(wk_pc)
    /\ wk_frame' = 1
    /\ UNCHANGED <<wk_armature, wk_bones, wk_anim, wk_keys, wk_ik_ran, wk_constraints,
                   wk_objects>>
    /\ UNCHANGED <<wk_rest_z, wk_loc_z, wk_heights>>

\* set_cyclic_interpolation(armature); mode_set(mode='OBJECT'); the prints
WkCyclic ==
    /\ wk_pc = "cyclic"
    /\ wk_pc' = "done"
    /\ UNCHANGED <<wk_armature, wk_bones, wk_anim, wk_frame, wk_keys, wk_ik_ran,
                   wk_constraints, wk_objects>>
    /\ UNCHANGED <<wk_rest_z, wk_loc_z, wk_heights>>

\* create_demo_walk: select_all; delete; the body and the two feet are added
WkDemoSetup ==
    /\ wk_pc = "demo_clear"
    /\ wk_objects' = { "Body", "Left_Foot", "Right_Foot" }
    /\ wk_keys' = {}
    /\ wk_pc' = "demo_frames"
    /\ wk_frame' = 1
    /\ UNCHANGED <<wk_armature, wk_bones, wk_anim, wk_ik_ran, wk_constraints>>
    /\ wk_heights' = {}
    /\ UNCHANGED <<wk_rest_z, wk_loc_z>>

\* create_demo_walk: one turn of the frame loop keys the feet and the body
WkDemoFrame ==
    /\ wk_pc = "demo_frames"
    /\ wk_frame <= WALK_CYCLE_FRAMES
    /\ wk_keys' = wk_keys \cup { <<"Left_Foot", "location", wk_frame>>,
                                  <<"Right_Foot", "location", wk_frame>>,
                                  <<"Body", "location", wk_frame>> }
    /\ wk_frame' = wk_frame + 1
    /\ UNCHANGED <<wk_pc, wk_armature, wk_bones, wk_anim, wk_ik_ran, wk_constraints,
                   wk_objects>>
    /\ wk_heights' = wk_heights \cup
          { <<"Left_Foot", wk_frame, FootHeight(wk_frame, TRUE) + DemoFootRest>>,
            <<"Right_Foot", wk_frame, FootHeight(wk_frame, FALSE) + DemoFootRest>>,
            <<"Body", wk_frame, HipBob(wk_frame) + DemoBodyRest>> }
    /\ UNCHANGED <<wk_rest_z, wk_loc_z>>

\* create_demo_walk returns, and create_walk_cycle after it
WkDemoDone ==
    /\ wk_pc = "demo_frames"
    /\ wk_frame > WALK_CYCLE_FRAMES
    /\ wk_pc' = "done"
    /\ UNCHANGED <<wk_armature, wk_bones, wk_anim, wk_frame, wk_keys, wk_ik_ran,
                   wk_constraints, wk_objects>>
    /\ UNCHANGED <<wk_rest_z, wk_loc_z, wk_heights>>

WalkIdle ==
    /\ wk_pc = "off"
    /\ wk_armature = FALSE
    /\ wk_bones = {}
    /\ wk_anim = FALSE
    /\ wk_frame = 0
    /\ wk_keys = {}
    /\ wk_ik_ran = FALSE
    /\ wk_constraints = {}
    /\ wk_objects = {}
    /\ wk_rest_z = 0
    /\ wk_loc_z = 0
    /\ wk_heights = {}

\* the scene before the script: with or without an armature, any of the named
\* bones, with or without earlier keyframes; no bone carries an IK constraint
WalkInit ==
    /\ wk_pc = "start"
    /\ wk_armature \in BOOLEAN
    /\ wk_bones \in SUBSET BoneNames
    /\ wk_armature \/ wk_bones = {}
    /\ wk_anim \in BOOLEAN
    /\ wk_armature \/ ~wk_anim
    /\ wk_frame = 0
    /\ wk_keys = IF wk_anim THEN { <<"armature", "location", 1>> } ELSE {}
    /\ wk_ik_ran = FALSE
    /\ wk_constraints = {}
    /\ wk_objects = IF wk_armature THEN { "armature" } ELSE {}
    /\ wk_rest_z \in IF wk_armature THEN { -500, 0, 500 } ELSE { 0 }
    /\ wk_loc_z = wk_rest_z
    /\ wk_heights = {}

(***************************************************************************)
(* Properties of create_walk_cycle                                         *)
(***************************************************************************)
\* C6 (as claimed): create_walk_cycle sets up IK constraints on the leg bones
\* before it keys the feet: when it finishes on an armature, the IK set-up step
\* has run and the leg bones of the armature carry IK constraints.
Claim_C6_IkSetUpBeforeFeet ==
    (wk_pc = "done" /\ wk_armature) =>
        /\ wk_ik_ran
        /\ (LegBones \cap wk_bones) \subseteq wk_constraints

\* C7 (as claimed): when the named foot bone does not exist, animate_foot uses a
\* placeholder animation: keyframes for that foot are still inserted for frames
\* 1..frames.
Claim_C7_PlaceholderKeysForMissingFoot ==
    (wk_pc = "done" /\ wk_armature) =>
        \A foot \in { "foot.L", "foot.R" } :
            foot \notin wk_bones =>
                \A f \in 1..WALK_CYCLE_FRAMES : \E k \in wk_keys : k[1] = foot /\ k[3] = f

\* a foot is lifted at a frame when it is keyed above its rest height
WkLifted(target, rest, f) ==
    \E h \in wk_heights : h[1] = target /\ h[2] = f /\ h[3] > rest

\* C16 (as claimed): the left and the right foot are in opposite phase: at every
\* frame 1..WALK_CYCLE_FRAMES at most one of the two feet is lifted, in
\* animate_foot on an armature and in create_demo_walk.
Claim_C16_FeetInOppositePhase ==
    wk_pc = "done" =>
        \A f \in 1..WALK_CYCLE_FRAMES :
            /\ ~(WkLifted("foot.L", 0, f) /\ WkLifted("foot.R", 0, f))
            /\ ~(WkLifted("Left_Foot", DemoFootRest, f) /\ WkLifted("Right_Foot", DemoFootRest, f))

\* C17 (as claimed): the hip height keyed at each frame is the rest height plus
\* that frame's bob: at every frame it is at most 0.05 above the height the
\* target had before animate_hip was called, for the hip bone and for the
\* armature object.
Claim_C17_HipBobBounded ==
    (wk_armature /\ wk_pc \in {"hip", "spine", "arm_left", "arm_right", "cyclic", "done"}) =>
        \A h \in wk_heights :
            h[1] \in {"hips", "armature"} => h[3] <= wk_rest_z + BobHeight

(***************************************************************************)
(* spacelight.py: recursive_tower(location, scale, depth, max_depth)       *)
(*                                                                         *)
(* Scales are counted in ten-thousandths.  random.uniform draws a real     *)
(* number, so a frame holds the interval [lo, hi] of the values its scale  *)
(* can have after the draws made on the way to it; a test on scale can go  *)
(* either way exactly when the interval straddles the threshold.  The      *)
(* list objects is held by its length.  Locations, angles, the number of   *)
(* sides and the twist enter no condition and are left out.                *)
(***************************************************************************)
ScaleUnit == 10000

\* the call of the build script: recursive_tower(location=(0, 0, 4), scale=3,
\* depth=0, max_depth=4)
TowerScale == 3

TowerMaxDepth == 4

\* "scale < 0.3", in ten-thousandths
MinScale == 3000

\* random.randint(2, 4)
ChildCounts == 2..4

\* random.uniform(0.5, 0.7), in tenths
UniformLo == 5

UniformHi == 7

TowerGuard_DepthBeyond(depth, max_depth, scale) == depth > max_depth \/ scale < MinScale

\* "if depth >= max_depth or scale < 0.3: return []"
TowerGuard(depth, max_depth, scale) == depth >= max_depth \/ scale < MinScale

\* the guard can hold / can fail for some scale of the interval
MayReturnEmpty(depth, lo, hi) == TowerGuard(depth, TowerMaxDepth, lo)

MayCreateSegment(depth, lo, hi) == ~TowerGuard(depth, TowerMaxDepth, hi)

\* the frame of a call that has passed the guard: the segment is created and
\* appended to objects, num_children is drawn
TowerFrame(depth, lo, hi, n) ==
    [ depth |-> depth, lo |-> lo, hi |-> hi, num_children |-> n, i |-> 0, objects |-> 1 ]

\* child_scale = scale * random.uniform(0.5, 0.7)
ChildLo(frame) == (frame.lo * UniformLo) \div 10

ChildHi(frame) == (frame.hi * UniformHi) \div 10

TwTop == tw_stack[Len(tw_stack)]

\* the outermost call
TwCall ==
    /\ tw_pc = "idle"
    /\ \/ /\ MayCreateSegment(0, TowerScale * ScaleUnit, TowerScale * ScaleUnit)
          /\ \E n \in ChildCounts :
                tw_stack' = << TowerFrame(0, TowerScale * ScaleUnit, TowerScale * ScaleUnit, n) >>
          /\ tw_levels' = tw_levels \cup {0}
          /\ tw_pc' = "running"
          /\ UNCHANGED tw_result
       \/ /\ MayReturnEmpty(0, TowerScale * ScaleUnit, TowerScale * ScaleUnit)
          /\ tw_pc' = "done"
          /\ tw_result' = 0
          /\ UNCHANGED <<tw_stack, tw_levels>>

\* one turn of "for i in range(num_children)" whose recursive call passes the
\* guard: the child creates its segment and draws its num_children
TwChildSegment ==
    /\ tw_pc = "running"
    /\ TwTop.i < TwTop.num_children
    /\ MayCreateSegment(TwTop.depth + 1, ChildLo(TwTop), ChildHi(TwTop))
    /\ \E n \in ChildCounts :
          tw_stack' = Append(tw_stack,
                             TowerFrame(TwTop.depth + 1, ChildLo(TwTop), ChildHi(TwTop), n))
    /\ tw_levels' = tw_levels \cup { TwTop.depth + 1 }
    /\ UNCHANGED <<tw_pc, tw_result>>

\* one turn of the loop whose recursive call returns [] at the guard:
\* objects.extend([]) and the next turn
TwChildEmpty ==
    /\ tw_pc = "running"
    /\ TwTop.i < TwTop.num_children
    /\ MayReturnEmpty(TwTop.depth + 1, ChildLo(TwTop), ChildHi(TwTop))
    /\ tw_stack' = [ tw_stack EXCEPT ![Len(tw_stack)].i = @ + 1 ]
    /\ UNCHANGED <<tw_pc, tw_levels, tw_result>>

\* "return objects" of a call made by the loop: objects.extend(children) in the
\* caller and the next turn
TwReturnToParent ==
    /\ tw_pc = "running"
    /\ TwTop.i = TwTop.num_children
    /\ Len(tw_stack) > 1
    /\ tw_stack' = [ SubSeq(tw_stack, 1, Len(tw_stack) - 1) EXCEPT
                        ![Len(tw_stack) - 1].objects = @ + TwTop.objects,
                        ![Len(tw_stack) - 1].i = @ + 1 ]
    /\ UNCHANGED <<tw_pc, tw_levels, tw_result>>

\* "return objects" of the outermost call
TwReturn ==
    /\ tw_pc = "running"
    /\ TwTop.i = TwTop.num_children
    /\ Len(tw_stack) = 1
    /\ tw_result' = TwTop.objects
    /\ tw_stack' = <<>>
    /\ tw_pc' = "done"
    /\ UNCHANGED tw_levels

TowerIdle ==
    /\ tw_pc = "off"
    /\ tw_stack = <<>>
    /\ tw_levels = {}
    /\ tw_result = 0

TowerInit ==
    /\ tw_pc = "idle"
    /\ tw_stack = <<>>
    /\ tw_levels = {}
    /\ tw_result = 0

(***************************************************************************)
(* Properties of recursive_tower                                           *)
(***************************************************************************)
\* the largest number of steps a call at depth d can still take once its
\* frame is on the stack
RECURSIVE TwCallSteps(_)
TwCallSteps(d) ==
    IF d >= TowerMaxDepth THEN 0 ELSE 4 * (1 + TwCallSteps(d + 1)) + 1

\* a frame below the top has one turn of its loop in progress
TwFrameRank(k) ==
    LET f == tw_stack[k]
        turns == IF k = Len(tw_stack) THEN f.num_children - f.i
                                      ELSE f.num_children - f.i - 1
    IN  turns * (1 + TwCallSteps(f.depth + 1)) + 1

RECURSIVE TwSumRank(_)
TwSumRank(k) == IF k = 0 THEN 0 ELSE TwFrameRank(k) + TwSumRank(k - 1)

\* a measure of the work that is left
TwRank ==
    CASE tw_pc = "idle"    -> TwCallSteps(0) + 1
      [] tw_pc = "running" -> TwSumRank(Len(tw_stack))
      [] OTHER             -> 0

TwSegmentsInBounds ==
    \A k \in 1..Len(tw_stack) :
        /\ tw_stack[k].depth < TowerMaxDepth
        /\ tw_stack[k].lo >= MinScale
        /\ tw_stack[k].i <= tw_stack[k].num_children

TwResultInBounds ==
    tw_pc = "done" =>
        /\ tw_levels = 0..3
        /\ tw_result >= 15
        /\ tw_result <= 85

\* C10: recursive_tower(location=(0,0,4), scale=3, depth=0, max_depth=4)
\* terminates for every outcome of its random choices (every step lowers a
\* non-negative measure; a call that is not over can take a step); no segment
\* has depth >= 4 or scale < 0.3; a segment exists at each of the depths
\* 0, 1, 2, 3; the number of segments returned is between 15 and 85.
Thm_C10_TowerTerminatesWithinBounds ==
    /\ [](TwSegmentsInBounds /\ TwResultInBounds)
    /\ [](TwRank >= 0 /\ (tw_pc = "running" => tw_stack # <<>>))
    /\ [][TwRank' < TwRank]_vars

Wit_C10_SmallestTowerReturned ==
    /\ tw_pc = "done"
    /\ tw_result = 15
    /\ tw_levels = 0..3

(***************************************************************************)
(* spacelight.py: create_fractal_spikes(center, radius, depth, max_depth)  *)
(*                                                                         *)
(* The radius is counted in 1/RadiusUnit; the list spikes is held by its   *)
(* length.  Angles and locations enter no condition and are left out.      *)
(***************************************************************************)
RadiusUnit == 256

\* the call of the build script: create_fractal_spikes(center=(0, 0, 2),
\* radius=8, depth=0, max_depth=3)
SpikeRadius == 8

SpikeMaxDepth == 3

SpikeDepths == 0..6

\* "if depth >= max_depth: return []"
SpikeGuard(depth, max_depth) == depth >= max_depth

NumSpikes_Six(depth) == 6

\* num_spikes = 6 - depth
NumSpikes(depth) == 6 - depth

\* "if depth < max_depth - 1": the spike gets children
SpikeRecurses(depth, max_depth) == depth < max_depth - 1

\* the frame of a call that has passed the guard: spikes = []
SpikeFrame(depth, radius) ==
    [ depth |-> depth, radius |-> radius, num_spikes |-> NumSpikes(depth), i |-> 0,
      spikes |-> 0 ]

SkTop == sk_stack[Len(sk_stack)]

\* the outermost call: create_fractal_spikes(center, radius, 0, max_depth)
SkCall ==
    /\ sk_pc = "idle"
    /\ IF SpikeGuard(0, sk_max_depth)
          THEN /\ sk_pc' = "done"
               /\ sk_result' = 0
               /\ UNCHANGED sk_stack
          ELSE /\ sk_stack' = << SpikeFrame(0, SpikeRadius * RadiusUnit) >>
               /\ sk_pc' = "running"
               /\ UNCHANGED sk_result
    /\ UNCHANGED <<sk_max_depth, sk_levels>>

\* one turn of "for i in range(num_spikes)" without recursion: the cone is
\* added and appended to spikes
SkSpike ==
    /\ sk_pc = "running"
    /\ SkTop.i < SkTop.num_spikes
    /\ ~SpikeRecurses(SkTop.depth, sk_max_depth)
    /\ sk_stack' = [ sk_stack EXCEPT ![Len(sk_stack)].spikes = @ + 1,
                                      ![Len(sk_stack)].i = @ + 1 ]
    /\ sk_levels' = [ sk_levels EXCEPT ![SkTop.depth] = @ + 1 ]
    /\ UNCHANGED <<sk_pc, sk_max_depth, sk_result>>

\* one turn of the loop with recursion: the cone is added and appended, and
\* create_fractal_spikes(tip_location, radius * 0.5, depth + 1, max_depth) is
\* called; the turn ends when that call returns
SkSpikeWithChildren ==
    /\ sk_pc = "running"
    /\ SkTop.i < SkTop.num_spikes
    /\ SpikeRecurses(SkTop.depth, sk_max_depth)
    /\ IF SpikeGuard(SkTop.depth + 1, sk_max_depth)
          THEN sk_stack' = [ sk_stack EXCEPT ![Len(sk_stack)].spikes = @ + 1,
                                             ![Len(sk_stack)].i = @ + 1 ]
          ELSE sk_stack' = Append([ sk_stack EXCEPT ![Len(sk_stack)].spikes = @ + 1 ],
                                  SpikeFrame(SkTop.depth + 1, SkTop.radius \div 2))
    /\ sk_levels' = [ sk_levels EXCEPT ![SkTop.depth] = @ + 1 ]
    /\ UNCHANGED <<sk_pc, sk_max_depth, sk_result>>

\* "return spikes" of a call made by the loop: spikes.extend(children) in the
\* caller and the next turn
SkReturnToParent ==
    /\ sk_pc = "running"
    /\ SkTop.i >= SkTop.num_spikes
    /\ Len(sk_stack) > 1
    /\ sk_stack' = [ SubSeq(sk_stack, 1, Len(sk_stack) - 1) EXCEPT
                        ![Len(sk_stack) - 1].spikes = @ + SkTop.spikes,
                        ![Len(sk_stack) - 1].i = @ + 1 ]
    /\ UNCHANGED <<sk_pc, sk_max_depth, sk_levels, sk_result>>

\* "return spikes" of the outermost call
SkReturn ==
    /\ sk_pc = "running"
    /\ SkTop.i >= SkTop.num_spikes
    /\ Len(sk_stack) = 1
    /\ sk_result' = SkTop.spikes
    /\ sk_stack' = <<>>
    /\ sk_pc' = "done"
    /\ UNCHANGED <<sk_max_depth, sk_levels>>

SpikeIdle ==
    /\ sk_pc = "off"
    /\ sk_max_depth = 0
    /\ sk_stack = <<>>
    /\ sk_levels = <<>>
    /\ sk_result = 0

SpikeInit ==
    /\ sk_pc = "idle"
    /\ sk_max_depth \in 0..MaxSpikeDepth
    /\ sk_stack = <<>>
    /\ sk_levels = [ d \in SpikeDepths |-> 0 ]
    /\ sk_result = 0

(***************************************************************************)
(* Properties of create_fractal_spikes                                     *)
(***************************************************************************)
SkSpikesOnThreeLevels ==
    (sk_pc = "done" /\ sk_max_depth = SpikeMaxDepth) =>
        /\ sk_result = 156
        /\ sk_levels[0] = 6 /\ sk_levels[1] = 30 /\ sk_levels[2] = 120
        /\ \A d \in SpikeDepths : d >= 3 => sk_levels[d] = 0

\* C11: create_fractal_spikes(center, radius, depth=0, max_depth=3) returns
\* exactly 156 spikes: 6 at depth 0, 30 at depth 1, 120 at depth 2 and none at
\* depth >= 3; for every max_depth >= 0 the call returns, max_depth >= 7
\* included, where 6 - depth reaches 0.
Thm_C11_SpikesCountAndTermination ==
    /\ []SkSpikesOnThreeLevels
    /\ <>(sk_pc = "done")

Wit_C11_ThreeLevelsReturned ==
    /\ sk_pc = "done"
    /\ sk_max_depth = SpikeMaxDepth
    /\ sk_result = 156

(***************************************************************************)
(* spacelight.py: the random module over two runs of the script            *)
(*                                                                         *)
(* The generator of the random module is a deterministic machine: a draw   *)
(* maps its state to the next state and reads the value off it.  It is     *)
(* modelled by a linear congruential generator; the state it has when a    *)
(* run starts (operating-system entropy, or what an earlier script left    *)
(* behind) is arbitrary.  uniform draws are counted in thousandths.  The   *)
(* loops of the build functions are unrolled LoopTurns times; the loop of  *)
(* recursive_tower runs as the draws decide.                               *)
(***************************************************************************)
SEED == 123

RngModulus == 65537

RngMultiplier == 75

RngIncrement == 74

\* generator states a run can start from
EntropyStates == { 0, 123, 40000 }

SeedState_Ignored(state, seed) == state

\* random.seed(SEED): the state is a function of the seed alone
SeedState(state, seed) == seed % RngModulus

\* one step of the generator
RngNext(state) == (state * RngMultiplier + RngIncrement) % RngModulus

\* random.randint(lo, hi), random.uniform(lo, hi) in thousandths, and the
\* index random.choice picks in a list of hi elements (lo = 1), read off the
\* generator's state after the step
DrawValue(state, lo, hi) == lo + (state % (hi - lo + 1))

Site(line, lo, hi) == [ kind |-> "draw", line |-> line, lo |-> lo, hi |-> hi ]

\* create_organic_base: the noise factor of each vertex
SitesBase == Repeat(<< Site(88, 900, 1100) >>, LoopTurns)

\* create_fibonacci_spiral_pillars, create_floating_crystals,
\* create_energy_rings, create_organic_tendrils
SitesPillars == Repeat(<< Site(130, 1, 3) >>, LoopTurns)

SitesCrystals ==
    Repeat(<< Site(206, 5, 8), Site(210, 300, 800), Site(212, 2000, 5000),
              Site(214, -15000, 15000), Site(215, -15000, 15000), Site(216, 8000, 25000),
              Site(224, 0, 3142), Site(225, 0, 3142), Site(226, 0, 6283) >>, LoopTurns)

SitesRings == Repeat(<< Site(257, -300, 300), Site(258, -300, 300) >>, LoopTurns)

SitesTendrils ==
    Repeat(<< Site(288, 0, 6283), Site(289, 6000, 10000) >>
           \o Repeat(<< Site(295, 15000, 25000) >>, LoopTurns), LoopTurns)

\* the material of each ring; the accent lights
SitesRingMaterials == Repeat(<< Site(625, 1, 3) >>, LoopTurns)

SitesLights ==
    Repeat(<< Site(653, 10000, 20000), Site(658, 1, 3), Site(659, 300000, 800000) >>,
           LoopTurns)

\* the build sequence of the script, lines 575-659
SdProgram ==
    SitesBase \o << [ kind |-> "tower", line |-> 579, lo |-> 0, hi |-> 0 ] >>
    \o SitesPillars \o SitesCrystals \o SitesRings \o SitesTendrils
    \o SitesRingMaterials \o SitesLights

SdTop == sd_stack[Len(sd_stack)]

\* a call of recursive_tower that has passed the guard: sides, twist.angle and
\* num_children are drawn in this order and the segment is created
SdSegment(depth, scale, state) ==
    LET s1 == RngNext(state)
        s2 == RngNext(s1)
        s3 == RngNext(s2)
    IN  [ frame |-> [ depth |-> depth, scale |-> scale,
                      num_children |-> DrawValue(s3, 2, 4), i |-> 0 ],
          entry |-> [ line |-> 24, depth |-> depth, scale |-> scale,
                      sides |-> 4 + DrawValue(s1, 1, 4),
                      twist |-> DrawValue(s2, -500, 500),
                      num_children |-> DrawValue(s3, 2, 4) ],
          rng   |-> s3 ]

\* random.seed(SEED), line 13
SdSeed ==
    /\ sd_phase = "seed"
    /\ sd_rng' = SeedState(sd_rng, SEED)
    /\ sd_seeded' = TRUE
    /\ sd_phase' = "build"
    /\ sd_pc' = 1
    /\ UNCHANGED <<sd_run, sd_entropy, sd_stack, sd_log, sd_logs>>

\* the next call into the random module outside recursive_tower
SdDraw ==
    /\ sd_phase = "build"
    /\ sd_pc <= Len(SdProgram)
    /\ SdProgram[sd_pc].kind = "draw"
    /\ sd_rng' = RngNext(sd_rng)
    /\ sd_log' = Append(sd_log, [ line |-> SdProgram[sd_pc].line,
                                  value |-> DrawValue(sd_rng', SdProgram[sd_pc].lo,
                                                      SdProgram[sd_pc].hi),
                                  seeded |-> sd_seeded ])
    /\ sd_pc' = sd_pc + 1
    /\ UNCHANGED <<sd_phase, sd_run, sd_entropy, sd_seeded, sd_stack, sd_logs>>

\* tower_objects = recursive_tower(location=(0, 0, 4), scale=3, depth=0,
\* max_depth=4)
SdTowerCall ==
    /\ sd_phase = "build"
    /\ sd_pc <= Len(SdProgram)
    /\ SdProgram[sd_pc].kind = "tower"
    /\ sd_stack = <<>>
    /\ IF TowerGuard(0, TowerMaxDepth, TowerScale * ScaleUnit)
          THEN /\ sd_pc' = sd_pc + 1
               /\ UNCHANGED <<sd_rng, sd_stack, sd_log>>
          ELSE LET seg == SdSegment(0, TowerScale * ScaleUnit, sd_rng)
               IN  /\ sd_stack' = << seg.frame >>
                   /\ sd_rng' = seg.rng
                   /\ sd_log' = Append(sd_log, seg.entry @@ [ seeded |-> sd_seeded ])
                   /\ UNCHANGED sd_pc
    /\ UNCHANGED <<sd_phase, sd_run, sd_entropy, sd_seeded, sd_logs>>

\* one turn of the loop of recursive_tower: child_scale and the angle are drawn
\* and the child is called; it returns [] at the guard or creates its segment
SdTowerChild ==
    /\ sd_phase = "build"
    /\ sd_stack # <<>>
    /\ SdTop.i < SdTop.num_children
    /\ LET s1 == RngNext(sd_rng)
           s2 == RngNext(s1)
           child_scale == (SdTop.scale * DrawValue(s1, 500, 700)) \div 1000
           seg == SdSegment(SdTop.depth + 1, child_scale, s2)
       IN  IF TowerGuard(SdTop.depth + 1, TowerMaxDepth, child_scale)
             THEN /\ sd_stack' = [ sd_stack EXCEPT ![Len(sd_stack)].i = @ + 1 ]
                  /\ sd_rng' = s2
                  /\ UNCHANGED sd_log
             ELSE /\ sd_stack' = Append(sd_stack, seg.frame)
                  /\ sd_rng' = seg.rng
                  /\ sd_log' = Append(sd_log, seg.entry @@ [ seeded |-> sd_seeded ])
    /\ UNCHANGED <<sd_phase, sd_run, sd_entropy, sd_seeded, sd_pc, sd_logs>>

\* "return objects" of recursive_tower: to the loop of the caller, or to the
\* build sequence
SdTowerReturn ==
    /\ sd_phase = "build"
    /\ sd_stack # <<>>
    /\ SdTop.i = SdTop.num_children
    /\ IF Len(sd_stack) > 1
          THEN /\ sd_stack' = [ SubSeq(sd_stack, 1, Len(sd_stack) - 1) EXCEPT
                                    ![Len(sd_stack) - 1].i = @ + 1 ]
               /\ UNCHANGED sd_pc
          ELSE /\ sd_stack' = <<>>
               /\ sd_pc' = sd_pc + 1
    /\ UNCHANGED <<sd_phase, sd_run, sd_entropy, sd_rng, sd_seeded, sd_log, sd_logs>>

\* the script is over; the second run starts from its own generator state
SdRunOver ==
    /\ sd_phase = "build"
    /\ sd_pc > Len(SdProgram)
    /\ sd_logs' = Append(sd_logs, sd_log)
    /\ IF sd_run < Len(sd_entropy)
          THEN /\ sd_run' = sd_run + 1
               /\ sd_rng' = sd_entropy[sd_run + 1]
               /\ sd_phase' = "seed"
               /\ sd_seeded' = FALSE
               /\ sd_log' = <<>>
               /\ sd_pc' = 0
          ELSE /\ sd_phase' = "done"
               /\ UNCHANGED <<sd_run, sd_rng, sd_seeded, sd_log, sd_pc>>
    /\ UNCHANGED <<sd_entropy, sd_stack>>

SeedIdle ==
    /\ sd_phase = "off"
    /\ sd_run = 0
    /\ sd_entropy = <<>>
    /\ sd_rng = 0
    /\ sd_seeded = FALSE
    /\ sd_pc = 0
    /\ sd_stack = <<>>
    /\ sd_log = <<>>
    /\ sd_logs = <<>>

SeedInit ==
    /\ sd_phase = "seed"
    /\ sd_run = 1
    /\ sd_entropy \in [ 1..2 -> EntropyStates ]
    /\ sd_rng = sd_entropy[1]
    /\ sd_seeded = FALSE
    /\ sd_pc = 0
    /\ sd_stack = <<>>
    /\ sd_log = <<>>
    /\ sd_logs = <<>>

(***************************************************************************)
(* Properties of the seeded script                                         *)
(***************************************************************************)
\* C12: the scene spacelight.py builds is a function of SEED: random.seed(SEED)
\* has executed before every call into the random module, and two runs make the
\* same draws and create the same tower segments with the same parameters,
\* whatever state the generator was in when each run started.
Thm_C12_SameSeedSameScene ==
    /\ \A k \in DOMAIN sd_log : sd_log[k].seeded
    /\ sd_phase = "done" => sd_logs[1] = sd_logs[2]

Wit_C12_TwoRunsFromDifferentStates ==
    /\ sd_phase = "done"
    /\ sd_entropy[1] # sd_entropy[2]
    /\ Len(sd_logs[2]) > 15
    /\ \E k \in DOMAIN sd_logs[2] : sd_logs[2][k].line = 24 /\ sd_logs[2][k].depth = 3

(***************************************************************************)
(* Mandelbulb.py: mandelbulb_distance(pos, power, iterations, bailout)     *)
(*                                                                         *)
(* Lengths are counted in 1/LenUnit and are zero or a power of two, so     *)
(* that r ** power is exact; the samples lie on both sides of 0.0001 and   *)
(* of the bailout.  The direction of z is not held: the length of the new  *)
(* z is any of the samples.  dr is counted in 1/DrUnit, rounded down and   *)
(* held at DrCap once it is that large.                                    *)
(***************************************************************************)
LenUnit == 16384

DrUnit == 16

DrCap == 524288

\* bailout=2.0
Bailout == 2 * LenUnit

\* 0, 0.000061, 0.000122, 0.5, 1, 2, 4
SampleLengths == { 0, 1, 2, 8192, 16384, 32768, 65536 }

BelowEpsilon_Never(r) == FALSE

\* "r < 0.0001"
BelowEpsilon(r) == r * 10000 < LenUnit

\* "r > 0.0001"
AboveEpsilon(r) == r * 10000 > LenUnit

RECURSIVE Log2(_)
Log2(x) == IF x <= 1 THEN 0 ELSE 1 + Log2(x \div 2)

\* x * 2^k, rounded down
RECURSIVE MulPow2(_, _)
MulPow2(x, k) ==
    IF k = 0 \/ x = 0 THEN x
    ELSE IF k > 0 THEN MulPow2(2 * x, k - 1)
    ELSE MulPow2(x \div 2, k + 1)

\* dr = (r ** (power - 1.0)) * power * dr + 1.0
NextDr(r, power, dr) ==
    Min(DrCap, MulPow2(power * dr, (power - 1) * (Log2(r) - Log2(LenUnit))) + DrUnit)

\* "if r > bailout: break"
MdBreak ==
    /\ md_pc = "loop"
    /\ md_i < md_iterations
    /\ md_z > Bailout
    /\ md_r' = md_z
    /\ md_pc' = "final"
    /\ UNCHANGED <<md_power, md_iterations, md_i, md_z, md_dr, md_divs, md_result>>

\* "if r < 0.0001: return 0"
MdReturnZero ==
    /\ md_pc = "loop"
    /\ md_i < md_iterations
    /\ ~(md_z > Bailout)
    /\ BelowEpsilon(md_z)
    /\ md_r' = md_z
    /\ md_pc' = "returned"
    /\ md_result' = "zero"
    /\ UNCHANGED <<md_power, md_iterations, md_i, md_z, md_dr, md_divs>>

\* the rest of a turn of the loop: z.z / r, the new z and the new dr
MdIterate ==
    /\ md_pc = "loop"
    /\ md_i < md_iterations
    /\ ~(md_z > Bailout)
    /\ ~BelowEpsilon(md_z)
    /\ md_r' = md_z
    /\ md_divs' = md_divs \cup { <<"r", md_z, md_dr>> }
    /\ md_z' \in SampleLengths
    /\ md_dr' = NextDr(md_z, md_power, md_dr)
    /\ md_i' = md_i + 1
    /\ UNCHANGED <<md_pc, md_power, md_iterations, md_result>>

\* range(iterations) is exhausted
MdLoopOver ==
    /\ md_pc = "loop"
    /\ md_i >= md_iterations
    /\ md_pc' = "final"
    /\ UNCHANGED <<md_power, md_iterations, md_i, md_z, md_r, md_dr, md_divs, md_result>>

\* "if r > 0.0001 and dr > 0: return 0.5 * math.log(max(r, 0.0001)) * r / dr"
MdReturnEstimate ==
    /\ md_pc = "final"
    /\ AboveEpsilon(md_r) /\ md_dr > 0
    /\ md_divs' = md_divs \cup { <<"dr", md_r, md_dr>> }
    /\ md_result' = "estimate"
    /\ md_pc' = "returned"
    /\ UNCHANGED <<md_power, md_iterations, md_i, md_z, md_r, md_dr>>

\* "else: return 0"
MdReturnZeroAtEnd ==
    /\ md_pc = "final"
    /\ ~(AboveEpsilon(md_r) /\ md_dr > 0)
    /\ md_result' = "zero"
    /\ md_pc' = "returned"
    /\ UNCHANGED <<md_power, md_iterations, md_i, md_z, md_r, md_dr, md_divs>>

DistIdle ==
    /\ md_pc = "off"
    /\ md_power = 0
    /\ md_iterations = 0
    /\ md_i = 0
    /\ md_z = 0
    /\ md_r = 0
    /\ md_dr = 0
    /\ md_divs = {}
    /\ md_result = "none"

\* z = pos.copy(); dr = 1.0; r = 0.0
DistInit ==
    /\ md_pc = "loop"
    /\ md_power \in Powers
    /\ md_iterations \in 0..MaxDistIterations
    /\ md_i = 0
    /\ md_z \in SampleLengths
    /\ md_r = 0
    /\ md_dr = DrUnit
    /\ md_divs = {}
    /\ md_result = "none"

(***************************************************************************)
(* Properties of mandelbulb_distance                                       *)
(***************************************************************************)
\* C13: mandelbulb_distance never divides by a radius below 0.0001 or by a
\* non-positive derivative: it returns 0 as soon as an iterate has length
\* r < 0.0001; dr >= 1 at every point of the loop; the final estimate is
\* computed only when r > 0.0001 and dr > 0, and 0 is returned otherwise, the
\* call with iterations = 0 included.
Thm_C13_NoDivisionBySmallRadius ==
    /\ \A d \in md_divs : d[1] = "r" => d[2] * 10000 >= LenUnit
    /\ \A d \in md_divs : d[1] = "dr" => (d[2] * 10000 > LenUnit /\ d[3] > 0)
    /\ md_pc \in {"loop", "final", "returned"} => md_dr >= DrUnit
    /\ (md_pc = "returned" /\ md_r * 10000 < LenUnit) => md_result = "zero"
    /\ (md_pc = "returned" /\ md_result = "estimate") =>
            (md_r * 10000 > LenUnit /\ md_dr > 0)
    /\ (md_pc = "returned" /\ md_iterations = 0) => md_result = "zero"

Wit_C13_ZeroAfterSmallIterate ==
    /\ md_pc = "returned"
    /\ md_i >= 1
    /\ md_r = 1
    /\ md_result = "zero"
    /\ md_divs # {}

(***************************************************************************)
(* animations/bounce.py and animations/jump.py                             *)
(*                                                                         *)
(* The statements that read or write char.location, in order; positions    *)
(* are counted in tenths.  The statements on rotation_euler and scale do   *)
(* not touch the location and are left out.  A keyframe is <<index, frame, *)
(* value>>; the host gives a keyed channel its curve's value when the      *)
(* frame is set.  Each script is run twice in the same session.            *)
(***************************************************************************)
BounceLength == 120

JumpLength == 240

AnStmt(op, line, axis, delta, frame) ==
    [ op |-> op, line |-> line, axis |-> axis, delta |-> delta, frame |-> frame ]

\* char.location.<axis> = start_<axis> + delta; char.keyframe_insert(
\* data_path="location", frame=frame), on the one index or on all three
AnMove(line, axis, delta, keyed, frame) ==
    << AnStmt("set", line, axis, delta, 0), AnStmt("key", line + 1, keyed, 0, frame) >>

AnProgBounce ==
    << AnStmt("clear", 20, 0, 0, 0),
       AnStmt("frame_set", 24, 0, 0, 1),
       AnStmt("read_start", 28, 0, 0, 0) >>
    \o AnMove(29, 3, 0, 3, 1) \o AnMove(33, 3, 3, 3, 15) \o AnMove(37, 3, -1, 3, 30)
    \o AnMove(41, 3, 0, 3, 45) \o AnMove(45, 3, 3, 3, 60) \o AnMove(48, 3, -1, 3, 75)
    \o AnMove(51, 3, 0, 3, 90) \o AnMove(55, 3, 2, 3, 105) \o AnMove(58, 3, 0, 3, 120)

\* jump.py up to the landing of frame 225
AnJumpBody ==
    << AnStmt("clear", 20, 0, 0, 0),
       AnStmt("read_start", 24, 0, 0, 0),
       AnStmt("frame_set", 31, 0, 0, 1),
       AnStmt("set_loc", 32, 0, 0, 0),
       AnStmt("key", 35, 0, 0, 1) >>
    \o AnMove(40, 3, 8, 0, 20) \o AnMove(48, 3, 12, 0, 35) \o AnMove(57, 3, -2, 0, 50)
    \o AnMove(66, 3, 3, 0, 60) \o AnMove(72, 3, 0, 0, 70)
    \o << AnStmt("set", 82, 1, -5, 0), AnStmt("key", 84, 0, 0, 90),
          AnStmt("set", 89, 1, 5, 0), AnStmt("key", 91, 0, 0, 110),
          AnStmt("set", 96, 1, 0, 0), AnStmt("set", 97, 3, 4, 0),
          AnStmt("key", 99, 0, 0, 130) >>
    \o AnMove(104, 3, 15, 0, 150) \o AnMove(113, 3, 18, 0, 170)
    \o AnMove(120, 3, 15, 0, 190) \o AnMove(127, 3, -3, 0, 210)
    \o AnMove(135, 3, 2, 0, 225)

AnProgJump_NoRestPose ==
    AnJumpBody \o << AnStmt("key", 144, 0, 0, 240) >>

\* "Frame 240: Return to rest pose"
AnProgJump ==
    AnJumpBody \o << AnStmt("set_loc", 141, 0, 0, 0), AnStmt("key", 144, 0, 0, 240) >>

AnProgram == IF an_script = "bounce" THEN AnProgBounce ELSE AnProgJump

AnLastFrame == IF an_script = "bounce" THEN BounceLength ELSE JumpLength

AnAt(op) ==
    /\ an_run \in 1..2
    /\ an_active
    /\ an_pc <= Len(AnProgram)
    /\ AnProgram[an_pc].op = op

\* keyframe_insert on a channel replaces the key the channel has at that frame
AnInsertKey(keys, index, frame, value) ==
    { k \in keys : ~(k[1] = index /\ k[2] = frame) } \cup { <<index, frame, value>> }

AnInsertKeys(keys, indices, frame, loc) ==
    { k \in keys : ~(k[1] \in indices /\ k[2] = frame) }
    \cup { <<index, frame, loc[index]>> : index \in indices }

\* the value the curve of a channel has at a frame that carries a key
AnCurveValue(keys, index, frame, otherwise) ==
    IF \E k \in keys : k[1] = index /\ k[2] = frame
       THEN (CHOOSE k \in keys : k[1] = index /\ k[2] = frame)[3]
       ELSE otherwise

\* "if char is None: print(...)": nothing else is done
AnNoObject ==
    /\ an_run \in 1..2
    /\ ~an_active
    /\ an_pc = 1
    /\ an_pc' = Len(AnProgram) + 1
    /\ UNCHANGED <<an_script, an_run, an_active, an_before, an_loc, an_anim, an_keys,
                   an_frame, an_start, an_starts>>

\* "if char.animation_data: char.animation_data_clear()"
AnClear ==
    /\ AnAt("clear")
    /\ an_keys' = IF an_anim THEN {} ELSE an_keys
    /\ an_anim' = FALSE
    /\ an_pc' = an_pc + 1
    /\ UNCHANGED <<an_script, an_run, an_active, an_before, an_loc, an_frame, an_start,
                   an_starts>>

\* bpy.context.scene.frame_set(1): the animated channels take their curves'
\* values
AnFrameSet ==
    /\ AnAt("frame_set")
    /\ an_frame' = AnProgram[an_pc].frame
    /\ an_loc' = [ index \in 1..3 |->
                     AnCurveValue(an_keys, index, AnProgram[an_pc].frame, an_loc[index]) ]
    /\ an_pc' = an_pc + 1
    /\ UNCHANGED <<an_script, an_run, an_active, an_before, an_anim, an_keys, an_start,
                   an_starts>>

\* start_z = char.location.z (bounce.py); start_x, start_y, start_z (jump.py)
AnReadStart ==
    /\ AnAt("read_start")
    /\ an_start' = an_loc
    /\ an_pc' = an_pc + 1
    /\ UNCHANGED <<an_script, an_run, an_active, an_before, an_loc, an_anim, an_keys,
                   an_frame, an_starts>>

\* char.location.z = start_z + delta, char.location.x = start_x + delta
AnSetAxis ==
    /\ AnAt("set")
    /\ an_loc' = [ an_loc EXCEPT ![AnProgram[an_pc].axis] =
                                   an_start[AnProgram[an_pc].axis] + AnProgram[an_pc].delta ]
    /\ an_pc' = an_pc + 1
    /\ UNCHANGED <<an_script, an_run, an_active, an_before, an_anim, an_keys, an_frame,
                   an_start, an_starts>>

\* char.location = (start_x, start_y, start_z)
AnSetLocation ==
    /\ AnAt("set_loc")
    /\ an_loc' = an_start
    /\ an_pc' = an_pc + 1
    /\ UNCHANGED <<an_script, an_run, an_active, an_before, an_anim, an_keys, an_frame,
                   an_start, an_starts>>

\* char.keyframe_insert(data_path="location", frame=frame), with index=2 in
\* bounce.py
AnKeyframeInsert ==
    /\ AnAt("key")
    /\ an_keys' = AnInsertKeys(an_keys,
                               IF AnProgram[an_pc].axis = 0 THEN 1..3
                                                            ELSE { AnProgram[an_pc].axis },
                               AnProgram[an_pc].frame, an_loc)
    /\ an_anim' = TRUE
    /\ an_pc' = an_pc + 1
    /\ UNCHANGED <<an_script, an_run, an_active, an_before, an_loc, an_frame, an_start,
                   an_starts>>

\* the script is over; it is run a second time in the same session
AnRunOver ==
    /\ an_run \in 1..2
    /\ an_pc > Len(AnProgram)
    /\ an_starts' = Append(an_starts, an_start)
    /\ an_run' = an_run + 1
    /\ an_pc' = 1
    /\ UNCHANGED <<an_script, an_active, an_before, an_loc, an_anim, an_keys, an_frame,
                   an_start>>

AnimIdle ==
    /\ an_script = "none"
    /\ an_run = 0
    /\ an_pc = 0
    /\ an_active = FALSE
    /\ an_before = <<>>
    /\ an_loc = <<>>
    /\ an_anim = FALSE
    /\ an_keys = {}
    /\ an_frame = 0
    /\ an_start = <<>>
    /\ an_starts = <<>>

\* the scene before the first run: the object is anywhere, with or without an
\* earlier animation of its height, at any of the frames
AnimInit ==
    /\ an_script \in { "bounce", "jump" }
    /\ an_run = 1
    /\ an_pc = 1
    /\ an_active \in BOOLEAN
    /\ an_loc \in { 0, 7 } \X { 0, -4 } \X { -10, 0, 25 }
    /\ an_before = an_loc
    /\ an_anim \in BOOLEAN
    /\ an_keys = IF an_anim THEN { <<3, 1, 50>>, <<3, 40, 60>> } ELSE {}
    /\ an_frame \in { 1, 40 }
    /\ an_start = <<>>
    /\ an_starts = <<>>

(***************************************************************************)
(* Properties of bounce.py and jump.py                                     *)
(***************************************************************************)
AnRunFinished == an_active /\ an_run \in 1..2 /\ an_pc > Len(AnProgram)

AnKeyedIndices == { k[1] : k \in an_keys }

\* C15: bounce.py and jump.py end where they start: the location keyed at the
\* last frame (120, 240) equals the location keyed at frame 1, which is the
\* location of the object before the script ran; the location after the script
\* is the location before it; the second run reads the start position the
\* first run read.
Thm_C15_EndsWhereItStarts ==
    /\ AnRunFinished =>
          /\ AnKeyedIndices # {}
          /\ \A index \in AnKeyedIndices :
                /\ <<index, 1, an_before[index]>> \in an_keys
                /\ <<index, AnLastFrame, an_before[index]>> \in an_keys
          /\ an_loc = an_before
    /\ (an_active /\ Len(an_starts) = 2) => an_starts[1] = an_starts[2]

Wit_C15_SecondJumpFinished ==
    /\ an_script = "jump"
    /\ an_run = 2
    /\ AnRunFinished
    /\ an_before[3] = 25
    /\ <<1, 90, an_before[1] - 5>> \in an_keys

(***************************************************************************)
(* Mandelbulb.py run more than once in the same scene                      *)
(* (src/Mandelbulb.py, module level: lines 6-15 and 224-252, setup_scene)  *)
(***************************************************************************)
\* how many times in succession the script is run
MaxRuns == 2

RnObj(id, type, data, run) == [id |-> id, type |-> type, data |-> data, run |-> run]

\* what the scene may hold before the first run (run 0): the host's default
\* cube, camera and light, a second mesh and an empty
InitialPool ==
    { RnObj(1, "MESH", "Cube", 0), RnObj(2, "MESH", "Plane", 0),
      RnObj(3, "CAMERA", "Camera", 0), RnObj(4, "LIGHT", "POINT", 0),
      RnObj(5, "EMPTY", "Empty", 0) }

FirstNewId == 6

OfType(objs, type) == { o \in objs : o.type = type }

TypeCounts(objs) ==
    [ type \in {"MESH", "CAMERA", "LIGHT", "EMPTY"} |-> Cardinality(OfType(objs, type)) ]

\* the lights of setup_scene, in order, and the position after each
SceneLights == [ sun |-> "SUN", rim |-> "AREA", fill |-> "AREA" ]
AfterLight == [ sun |-> "rim", rim |-> "fill", fill |-> "end" ]

Selectable_Nothing(obj) == FALSE

\* if obj.type == 'MESH': obj.select_set(True)
Selectable(obj) == obj.type = "MESH"

\* if bpy.context.mode != 'OBJECT': bpy.ops.object.mode_set(mode='OBJECT')
RnModeSet ==
    /\ rn_pc = "mode"
    /\ rn_mode' = IF rn_mode # "OBJECT" THEN "OBJECT" ELSE rn_mode
    /\ rn_pc' = "deselect"
    /\ UNCHANGED <<rn_objs, rn_sel, rn_todo, rn_i, rn_next, rn_camera, rn_run, rn_init,
                   rn_snap>>

\* bpy.ops.object.select_all(action='DESELECT'); the loop over bpy.data.objects starts
RnDeselectAll ==
    /\ rn_pc = "deselect"
    /\ rn_sel' = {}
    /\ rn_todo' = { o.id : o \in rn_objs }
    /\ rn_pc' = "select"
    /\ UNCHANGED <<rn_objs, rn_mode, rn_i, rn_next, rn_camera, rn_run, rn_init, rn_snap>>

\* one turn of the loop over bpy.data.objects
RnSelectStep ==
    /\ rn_pc = "select"
    /\ rn_todo # {}
    /\ LET id == CHOOSE n \in rn_todo : \A m \in rn_todo : n <= m
           obj == CHOOSE o \in rn_objs : o.id = id
       IN  /\ rn_sel' = IF Selectable(obj) THEN rn_sel \cup {id} ELSE rn_sel
           /\ rn_todo' = rn_todo \ {id}
    /\ UNCHANGED <<rn_pc, rn_objs, rn_mode, rn_i, rn_next, rn_camera, rn_run, rn_init,
                   rn_snap>>

\* if bpy.context.selected_objects: bpy.ops.object.delete()
RnDelete ==
    /\ rn_pc = "select"
    /\ rn_todo = {}
    /\ rn_sel # {}
    /\ rn_objs' = { o \in rn_objs : o.id \notin rn_sel }
    /\ rn_sel' = {}
    /\ rn_camera' = IF rn_camera \in rn_sel THEN 0 ELSE rn_camera
    /\ rn_i' = 1
    /\ rn_pc' = "generate"
    /\ UNCHANGED <<rn_mode, rn_todo, rn_next, rn_run, rn_init, rn_snap>>

\* nothing was selected: the delete is not called
RnNothingToDelete ==
    /\ rn_pc = "select"
    /\ rn_todo = {}
    /\ rn_sel = {}
    /\ rn_i' = 1
    /\ rn_pc' = "generate"
    /\ UNCHANGED <<rn_objs, rn_sel, rn_mode, rn_todo, rn_next, rn_camera, rn_run, rn_init,
                   rn_snap>>

\* one turn of the loop over fractal_configs: create_mandelbulb adds one mesh
\* object, which the host selects alone
RnCreateMandelbulb ==
    /\ rn_pc = "generate"
    /\ rn_i <= NumFractalConfigs
    /\ rn_objs' = rn_objs \cup { RnObj(rn_next, "MESH", "Mandelbulb", rn_run + 1) }
    /\ rn_sel' = {rn_next}
    /\ rn_next' = rn_next + 1
    /\ rn_i' = rn_i + 1
    /\ rn_pc' = IF rn_i = NumFractalConfigs THEN "camera" ELSE "generate"
    /\ UNCHANGED <<rn_mode, rn_todo, rn_camera, rn_run, rn_init, rn_snap>>

\* bpy.ops.object.camera_add(...); bpy.context.scene.camera = camera
RnCameraAdd ==
    /\ rn_pc = "camera"
    /\ rn_objs' = rn_objs \cup { RnObj(rn_next, "CAMERA", "Camera", rn_run + 1) }
    /\ rn_sel' = {rn_next}
    /\ rn_camera' = rn_next
    /\ rn_next' = rn_next + 1
    /\ rn_pc' = "sun"
    /\ UNCHANGED <<rn_mode, rn_todo, rn_i, rn_run, rn_init, rn_snap>>

\* bpy.ops.object.light_add(type=...): key, rim and fill light; the script
\* ends after the fill light
RnLightAdd ==
    /\ rn_pc \in DOMAIN SceneLights
    /\ rn_objs' = rn_objs \cup { RnObj(rn_next, "LIGHT", SceneLights[rn_pc], rn_run + 1) }
    /\ rn_sel' = {rn_next}
    /\ rn_next' = rn_next + 1
    /\ rn_pc' = AfterLight[rn_pc]
    /\ rn_run' = IF rn_pc = "fill" THEN rn_run + 1 ELSE rn_run
    /\ rn_snap' = IF rn_pc = "fill" THEN Append(rn_snap, TypeCounts(rn_objs')) ELSE rn_snap
    /\ UNCHANGED <<rn_mode, rn_todo, rn_i, rn_camera, rn_init>>

\* the user runs the script again, from object mode or from the edit mode of
\* one of the meshes
RnRunAgain ==
    /\ rn_pc = "end"
    /\ rn_run < MaxRuns
    /\ rn_mode' \in {"OBJECT", "EDIT"}
    /\ rn_pc' = "mode"
    /\ UNCHANGED <<rn_objs, rn_sel, rn_todo, rn_i, rn_next, rn_camera, rn_run, rn_init,
                   rn_snap>>

RerunIdle ==
    /\ rn_pc = "idle"
    /\ rn_objs = {}
    /\ rn_sel = {}
    /\ rn_mode = "OBJECT"
    /\ rn_todo = {}
    /\ rn_i = 0
    /\ rn_next = 0
    /\ rn_camera = 0
    /\ rn_run = 0
    /\ rn_init = {}
    /\ rn_snap = << >>

\* the scene the first run finds: any part of the pool, anything selected,
\* edit mode only when there is a mesh to edit
RerunInit ==
    /\ rn_pc = "mode"
    /\ rn_objs \in SUBSET InitialPool
    /\ rn_sel \in SUBSET { o.id : o \in rn_objs }
    /\ rn_mode \in IF OfType(rn_objs, "MESH") # {} THEN {"OBJECT", "EDIT"} ELSE {"OBJECT"}
    /\ rn_todo = {}
    /\ rn_i = 0
    /\ rn_next = FirstNewId
    /\ rn_camera \in { o.id : o \in OfType(rn_objs, "CAMERA") } \cup {0}
    /\ rn_run = 0
    /\ rn_init = rn_objs
    /\ rn_snap = << >>

RnRunOver == rn_pc = "end" /\ rn_run >= 1

RnCreatedBy(run, type) == { o \in OfType(rn_objs, type) : o.run = run }

RnCreated(type) == { o \in OfType(rn_objs, type) : o.run > 0 }

\* C18 as stated: after every run the scene holds, of the script's making, three
\* Mandelbulb meshes, one camera and three lights, and it holds as many objects
\* of each type as after the first run: nothing accumulates.
Claim_C18_RerunLeavesSameObjects ==
    RnRunOver =>
        /\ Cardinality(RnCreated("MESH")) = NumFractalConfigs
        /\ Cardinality(RnCreated("CAMERA")) = 1
        /\ Cardinality(RnCreated("LIGHT")) = 3
        /\ TypeCounts(rn_objs) = rn_snap[1]

\* C18, amended: every run removes all the meshes it finds and nothing else.
\* After a run the meshes of the scene are the three Mandelbulbs of that run,
\* every object of the first scene that is not a mesh is still there, and every
\* run so far has left its own camera and its own three lights (one sun and two
\* area lights): cameras and lights accumulate, meshes do not.  The scene's
\* camera is the camera of the last run.
Thm_C18_OnlyMeshesAreReplaced ==
    RnRunOver =>
        /\ OfType(rn_objs, "MESH") = RnCreatedBy(rn_run, "MESH")
        /\ Cardinality(OfType(rn_objs, "MESH")) = NumFractalConfigs
        /\ { o \in rn_init : o.type # "MESH" } \subseteq rn_objs
        /\ \A run \in 1..rn_run :
              /\ Cardinality(RnCreatedBy(run, "CAMERA")) = 1
              /\ Cardinality({ o \in RnCreatedBy(run, "LIGHT") : o.data = "SUN" }) = 1
              /\ Cardinality({ o \in RnCreatedBy(run, "LIGHT") : o.data = "AREA" }) = 2
        /\ TypeCounts(rn_objs)["CAMERA"] = TypeCounts(rn_init)["CAMERA"] + rn_run
        /\ TypeCounts(rn_objs)["LIGHT"] = TypeCounts(rn_init)["LIGHT"] + 3 * rn_run
        /\ TypeCounts(rn_objs)["EMPTY"] = TypeCounts(rn_init)["EMPTY"]
        /\ rn_camera \in { o.id : o \in RnCreatedBy(rn_run, "CAMERA") }
        /\ rn_mode = "OBJECT"

\* the second run on a scene that was empty before the first run has ended:
\* three meshes, two cameras, six lights
Wit_C18_SecondRunOver ==
    /\ RnRunOver
    /\ rn_run = 2
    /\ rn_init = {}
    /\ rn_snap[1] = [ type \in {"MESH", "CAMERA", "LIGHT", "EMPTY"} |->
                        CASE type = "MESH" -> 3 [] type = "CAMERA" -> 1
                          [] type = "LIGHT" -> 3 [] OTHER -> 0 ]
    /\ TypeCounts(rn_objs)["MESH"] = 3
    /\ TypeCounts(rn_objs)["CAMERA"] = 2
    /\ TypeCounts(rn_objs)["LIGHT"] = 6

(***************************************************************************)
(* Specifications: one per script; the other scripts' variables stay idle   *)
(***************************************************************************)
othersSierpinski == <<kleinVars, scriptVars, mandelVars, walkVars, towerVars, spikeVars, seedVars, distVars, animVars, rerunVars>>

InitSierpinski ==
    /\ SierpInit
    /\ KleinIdle
    /\ ScriptIdle
    /\ MandelIdle
    /\ WalkIdle
    /\ TowerIdle
    /\ SpikeIdle
    /\ SeedIdle
    /\ DistIdle
    /\ AnimIdle
    /\ RerunIdle

NextSierpinski ==
    \/ (\E h \in BOOLEAN : SpCall(h)) /\ UNCHANGED othersSierpinski
    \/ SpBaseCase /\ UNCHANGED othersSierpinski
    \/ SpHollowBranch /\ UNCHANGED othersSierpinski
    \/ SpRecursiveBranch /\ UNCHANGED othersSierpinski
    \/ SpLoopCall /\ UNCHANGED othersSierpinski
    \/ SpLoopReturn /\ UNCHANGED othersSierpinski
    \/ SpCreateMaterials /\ UNCHANGED othersSierpinski
    \/ SpAssignMaterials /\ UNCHANGED othersSierpinski

SpecSierpinski == InitSierpinski /\ [][NextSierpinski]_vars

othersKlein == <<sierpVars, scriptVars, mandelVars, walkVars, towerVars, spikeVars, seedVars, distVars, animVars, rerunVars>>

InitKlein ==
    /\ KleinInit
    /\ SierpIdle
    /\ ScriptIdle
    /\ MandelIdle
    /\ WalkIdle
    /\ TowerIdle
    /\ SpikeIdle
    /\ SeedIdle
    /\ DistIdle
    /\ AnimIdle
    /\ RerunIdle

NextKlein ==
    \/ KbNewVert /\ UNCHANGED othersKlein
    \/ KbFaceCreated /\ UNCHANGED othersKlein
    \/ KbFaceSkipped /\ UNCHANGED othersKlein
    \/ KbToMesh /\ UNCHANGED othersKlein

SpecKlein == InitKlein /\ [][NextKlein]_vars

othersScripts == <<sierpVars, kleinVars, mandelVars, walkVars, towerVars, spikeVars, seedVars, distVars, animVars, rerunVars>>

InitScripts ==
    /\ ScriptInit
    /\ SierpIdle
    /\ KleinIdle
    /\ MandelIdle
    /\ WalkIdle
    /\ TowerIdle
    /\ SpikeIdle
    /\ SeedIdle
    /\ DistIdle
    /\ AnimIdle
    /\ RerunIdle

NextScripts ==
    \/ ScExecute /\ UNCHANGED othersScripts
    \/ ScSkip /\ UNCHANGED othersScripts

SpecScripts == InitScripts /\ [][NextScripts]_vars

othersMandelbulb == <<sierpVars, kleinVars, scriptVars, walkVars, towerVars, spikeVars, seedVars, distVars, animVars, rerunVars>>

InitMandelbulb ==
    /\ MandelInit
    /\ SierpIdle
    /\ KleinIdle
    /\ ScriptIdle
    /\ WalkIdle
    /\ TowerIdle
    /\ SpikeIdle
    /\ SeedIdle
    /\ DistIdle
    /\ AnimIdle
    /\ RerunIdle

NextMandelbulb ==
    \/ MbIcoSphereAdd /\ UNCHANGED othersMandelbulb
    \/ MbModifierApply /\ UNCHANGED othersMandelbulb
    \/ MbDeform /\ UNCHANGED othersMandelbulb
    \/ MbSmoothReturn /\ UNCHANGED othersMandelbulb

SpecMandelbulb == InitMandelbulb /\ [][NextMandelbulb]_vars

othersWalk == <<sierpVars, kleinVars, scriptVars, mandelVars, towerVars, spikeVars, seedVars, distVars, animVars, rerunVars>>

InitWalk ==
    /\ WalkInit
    /\ SierpIdle
    /\ KleinIdle
    /\ ScriptIdle
    /\ MandelIdle
    /\ TowerIdle
    /\ SpikeIdle
    /\ SeedIdle
    /\ DistIdle
    /\ AnimIdle
    /\ RerunIdle

NextWalk ==
    \/ WkStartArmature /\ UNCHANGED othersWalk
    \/ WkStartDemo /\ UNCHANGED othersWalk
    \/ WkFootMissing /\ UNCHANGED othersWalk
    \/ WkFootFrame /\ UNCHANGED othersWalk
    \/ WkHipFrame /\ UNCHANGED othersWalk
    \/ WkSpineMissing /\ UNCHANGED othersWalk
    \/ WkSpineFrame /\ UNCHANGED othersWalk
    \/ WkArmMissing /\ UNCHANGED othersWalk
    \/ WkArmFrame /\ UNCHANGED othersWalk
    \/ WkLoopDone /\ UNCHANGED othersWalk
    \/ WkCyclic /\ UNCHANGED othersWalk
    \/ WkDemoSetup /\ UNCHANGED othersWalk
    \/ WkDemoFrame /\ UNCHANGED othersWalk
    \/ WkDemoDone /\ UNCHANGED othersWalk

SpecWalk == InitWalk /\ [][NextWalk]_vars

othersTower == <<sierpVars, kleinVars, scriptVars, mandelVars, walkVars, spikeVars, seedVars, distVars, animVars, rerunVars>>

InitTower ==
    /\ TowerInit
    /\ SierpIdle
    /\ KleinIdle
    /\ ScriptIdle
    /\ MandelIdle
    /\ WalkIdle
    /\ SpikeIdle
    /\ SeedIdle
    /\ DistIdle
    /\ AnimIdle
    /\ RerunIdle

NextTower ==
    \/ TwCall /\ UNCHANGED othersTower
    \/ TwChildSegment /\ UNCHANGED othersTower
    \/ TwChildEmpty /\ UNCHANGED othersTower
    \/ TwReturnToParent /\ UNCHANGED othersTower
    \/ TwReturn /\ UNCHANGED othersTower

SpecTower == InitTower /\ [][NextTower]_vars

othersSpikes == <<sierpVars, kleinVars, scriptVars, mandelVars, walkVars, towerVars, seedVars, distVars, animVars, rerunVars>>

InitSpikes ==
    /\ SpikeInit
    /\ SierpIdle
    /\ KleinIdle
    /\ ScriptIdle
    /\ MandelIdle
    /\ WalkIdle
    /\ TowerIdle
    /\ SeedIdle
    /\ DistIdle
    /\ AnimIdle
    /\ RerunIdle

NextSpikes ==
    \/ SkCall /\ UNCHANGED othersSpikes
    \/ SkSpike /\ UNCHANGED othersSpikes
    \/ SkSpikeWithChildren /\ UNCHANGED othersSpikes
    \/ SkReturnToParent /\ UNCHANGED othersSpikes
    \/ SkReturn /\ UNCHANGED othersSpikes

SpecSpikes == InitSpikes /\ [][NextSpikes]_vars

\* a call that can take a step takes it: the interpreter runs the script to its end
SpecSpikesLive == SpecSpikes /\ WF_vars(NextSpikes)

othersSeeded == <<sierpVars, kleinVars, scriptVars, mandelVars, walkVars, towerVars, spikeVars, distVars, animVars, rerunVars>>

InitSeeded ==
    /\ SeedInit
    /\ SierpIdle
    /\ KleinIdle
    /\ ScriptIdle
    /\ MandelIdle
    /\ WalkIdle
    /\ TowerIdle
    /\ SpikeIdle
    /\ DistIdle
    /\ AnimIdle
    /\ RerunIdle

NextSeeded ==
    \/ SdSeed /\ UNCHANGED othersSeeded
    \/ SdDraw /\ UNCHANGED othersSeeded
    \/ SdTowerCall /\ UNCHANGED othersSeeded
    \/ SdTowerChild /\ UNCHANGED othersSeeded
    \/ SdTowerReturn /\ UNCHANGED othersSeeded
    \/ SdRunOver /\ UNCHANGED othersSeeded

SpecSeeded == InitSeeded /\ [][NextSeeded]_vars

othersDistance == <<sierpVars, kleinVars, scriptVars, mandelVars, walkVars, towerVars, spikeVars, seedVars, animVars, rerunVars>>

InitDistance ==
    /\ DistInit
    /\ SierpIdle
    /\ KleinIdle
    /\ ScriptIdle
    /\ MandelIdle
    /\ WalkIdle
    /\ TowerIdle
    /\ SpikeIdle
    /\ SeedIdle
    /\ AnimIdle
    /\ RerunIdle

NextDistance ==
    \/ MdBreak /\ UNCHANGED othersDistance
    \/ MdReturnZero /\ UNCHANGED othersDistance
    \/ MdIterate /\ UNCHANGED othersDistance
    \/ MdLoopOver /\ UNCHANGED othersDistance
    \/ MdReturnEstimate /\ UNCHANGED othersDistance
    \/ MdReturnZeroAtEnd /\ UNCHANGED othersDistance

SpecDistance == InitDistance /\ [][NextDistance]_vars

othersAnim == <<sierpVars, kleinVars, scriptVars, mandelVars, walkVars, towerVars, spikeVars, seedVars, distVars, rerunVars>>

InitAnim ==
    /\ AnimInit
    /\ SierpIdle
    /\ KleinIdle
    /\ ScriptIdle
    /\ MandelIdle
    /\ WalkIdle
    /\ TowerIdle
    /\ SpikeIdle
    /\ SeedIdle
    /\ DistIdle
    /\ RerunIdle

NextAnim ==
    \/ AnNoObject /\ UNCHANGED othersAnim
    \/ AnClear /\ UNCHANGED othersAnim
    \/ AnFrameSet /\ UNCHANGED othersAnim
    \/ AnReadStart /\ UNCHANGED othersAnim
    \/ AnSetAxis /\ UNCHANGED othersAnim
    \/ AnSetLocation /\ UNCHANGED othersAnim
    \/ AnKeyframeInsert /\ UNCHANGED othersAnim
    \/ AnRunOver /\ UNCHANGED othersAnim

SpecAnim == InitAnim /\ [][NextAnim]_vars

othersRerun == <<sierpVars, kleinVars, scriptVars, mandelVars, walkVars, towerVars, spikeVars, seedVars, distVars, animVars>>

InitRerun ==
    /\ RerunInit
    /\ SierpIdle
    /\ KleinIdle
    /\ ScriptIdle
    /\ MandelIdle
    /\ WalkIdle
    /\ TowerIdle
    /\ SpikeIdle
    /\ SeedIdle
    /\ DistIdle
    /\ AnimIdle

NextRerun ==
    \/ RnModeSet /\ UNCHANGED othersRerun
    \/ RnDeselectAll /\ UNCHANGED othersRerun
    \/ RnSelectStep /\ UNCHANGED othersRerun
    \/ RnDelete /\ UNCHANGED othersRerun
    \/ RnNothingToDelete /\ UNCHANGED othersRerun
    \/ RnCreateMandelbulb /\ UNCHANGED othersRerun
    \/ RnCameraAdd /\ UNCHANGED othersRerun
    \/ RnLightAdd /\ UNCHANGED othersRerun
    \/ RnRunAgain /\ UNCHANGED othersRerun

SpecRerun == InitRerun /\ [][NextRerun]_vars

====
